---- MODULE Spec2Model ----
(***************************************************************************)
(* Whiskey Hollow character engine: the Character object of                *)
(* src/character.py (attributes, ageing, derived stats, skill allocation,  *)
(* slot inventory) as a state machine, the dice roller of src/dice.py,     *)
(* the attribute generators of src/character_creation.py and the quest     *)
(* lists of src/models/game_state.py.                                      *)
(*                                                                         *)
(* The specifications share the variables:                                 *)
(*   SpecAge   - the age assigned, roll_attributes, set_manual_attributes  *)
(*               and apply_age_effects, one boost or one vigor test per    *)
(*               step;                                                     *)
(*   SpecInv   - add_item / remove_item on a created character;            *)
(*   SpecLoad  - SpecInv with Character.from_dict;                         *)
(*   SpecAlloc - the prompt loop of allocate_skill_points, one prompt,     *)
(*               pause or animation per step;                              *)
(*   SpecDice  - one roll_dice call, one random draw per step;             *)
(*   SpecDiceFair - SpecDice under a fair random source;                   *)
(*   SpecRolls - the convenience rolls and AttributeRoller's 4d6;          *)
(*   SpecCreation - the attribute-set generators of AttributeRoller;       *)
(*   SpecQuest - set_player / add_quest / complete_quest / fail_quest on a *)
(*               GameState;                                                *)
(*   SpecGame  - SpecQuest with update_statistic and GameState.from_dict.  *)
(***************************************************************************)
EXTENDS Integers, Sequences, FiniteSets, TLC

VARIABLES
    \* ---- Character fields (src/character.py:27-57)
    age, skill_points, vigor, finesse, smarts,
    hit_points, max_hit_points, movement,
    base_inventory_slots, bonus_inventory_slots,
    inventory,          \* item name -> quantity (a function on the held names)
    skills,             \* skill key -> level (a function on the stored keys)
    \* ---- position inside apply_age_effects and its locals
    pc,                 \* "new" | "idle" | "boost" | "test"
    boosts_left,        \* iterations of the boost loop still to run
    tests_left,         \* iterations of the vigor-test loop still to run
    test_num,           \* i + 1 of the vigor test made last (0: none since
                        \* the last operation outside apply_age_effects)
    dice_to_roll,       \* dice_to_roll of the vigor test made last
    successes,          \* len(successes) of the vigor test made last
    five_or_six,        \* whether a die of the vigor test made last showed 5 or 6
    chosen_attr,        \* chosen_attr of the last boost or loss ("none": no change)
    start_vigor,        \* vigor when the running apply_age_effects was entered
    age_warning,        \* whether the operation made last on the character was
                        \* an apply_age_effects that printed the age warning
    \* ---- the last inventory call and the number of calls made
    call, inv_ops,
    \* ---- allocate_skill_points
    catalog,            \* skill_manager.get_skill_list(), as its keys in order
    alloc,              \* "out" | "prompt" | "pause" | "animation" |
                        \* "returned" | "raised" (left by an exception)
    alloc_event,        \* the last message of the prompt loop
    typed,              \* user_input: the text the last prompt read
    \* ---- roll_dice (src/dice.py): the call in progress
    dice,
    caller,             \* the convenience function that made the call
    \* ---- AttributeRoller (src/character_creation.py)
    generated,          \* the attribute set the last generator returned
    \* ---- GameState quests (src/models/game_state.py)
    quest_status,       \* Quest object -> its status field
    active_quests,      \* list of Quest objects
    completed_quests,   \* list of Quest objects
    quests_completed,   \* statistics['quests_completed']
    player,             \* GameState.player: "none", "character" (the
                        \* Character of the fields above) or "loaded"
    loaded_player,      \* the fields of the Character GameState.from_dict made
    quest_ops           \* number of GameState calls made

vars == << age, skill_points, vigor, finesse, smarts,
           hit_points, max_hit_points, movement,
           base_inventory_slots, bonus_inventory_slots, inventory, skills,
           pc, boosts_left, tests_left, test_num, dice_to_roll, successes,
           five_or_six, chosen_attr, start_vigor, age_warning, call, inv_ops,
           catalog, alloc, alloc_event, typed, dice, caller,
           generated, quest_status, active_quests, completed_quests,
           quests_completed, player, loaded_player, quest_ops >>

attrVars  == << vigor, finesse, smarts >>
derivedVars == << hit_points, max_hit_points, movement, base_inventory_slots >>
ageVars   == << pc, boosts_left, tests_left, test_num, dice_to_roll, successes,
                five_or_six,
                chosen_attr, start_vigor, age_warning >>
invVars   == << bonus_inventory_slots, inventory, call, inv_ops >>
allocVars == << skills, catalog, alloc, alloc_event, typed >>
diceVars  == << dice, caller >>
creationVars == << generated >>
questVars == << quest_status, active_quests, completed_quests, quests_completed,
                player, loaded_player, quest_ops >>

(***************************************************************************)
(* Bounds of the model.                                                    *)
(***************************************************************************)
\* apply_age_effects is called again only while the points it grants keep
\* skill_points within this cap.
MaxSkillPoints == 15

Max(a, b) == IF a >= b THEN a ELSE b

\* No inventory call has been made yet.
NoCall == [ op |-> "none", positive |-> TRUE ]

\* No roll_dice call has been made.
NoRoll == [ pc |-> "idle" ]

\* No attribute-set generator has been called.
NoneGenerated == [ generator |-> "none", vigor |-> 0, finesse |-> 0, smarts |-> 0 ]

\* The Quest objects, with the fields that never change. The callers hold
\* three: two share one id, and one names that id as prerequisite. Two
\* more are the objects GameState.from_dict makes from a saved dictionary.
QuestObjects == { "first", "first_again", "second", "loaded_active",
                  "loaded_completed" }

QuestId == [ o \in QuestObjects |-> IF o = "second" THEN "q2" ELSE "q1" ]

Prerequisites == [ o \in QuestObjects |-> IF o = "second" THEN { "q1" } ELSE { } ]

\* status: str = "available"
NewQuests == [ o \in QuestObjects |-> "available" ]

\* roll_dice was not called by a convenience function.
NoCaller == [ fn |-> "none", returned |-> FALSE, value |-> 0 ]

\* The empty mapping ({} of Python).
EmptyMap == [ k \in {} |-> 0 ]

(***************************************************************************)
(* Attributes                                                              *)
(***************************************************************************)
attributes == << "vigor", "finesse", "smarts" >>

AttrNames == { attributes[i] : i \in 1..Len(attributes) }

\* getattr(self, attr)
GetAttr(attr) ==
    CASE attr = "vigor"   -> vigor
      [] attr = "finesse" -> finesse
      [] attr = "smarts"  -> smarts

\* Values typed at the three manual prompts, << vigor, finesse, smarts >>
\* (the prompt loop accepts 3..18 only).
AttrInputs ==
    { << 10, 10, 10 >>, << 3, 3, 3 >>, << 18, 18, 18 >>, << 4, 3, 18 >>,
      << 12, 3, 4 >>, << 13, 10, 12 >>, << 11, 17, 3 >>, << 14, 18, 17 >>,
      << 17, 12, 18 >>, << 9, 4, 10 >>, << 16, 3, 3 >>, << 18, 3, 18 >> }


\* get_attribute_modifier: (attribute - 10) // 2, floor division.
ModifierOffByOne(attribute) == (attribute - 9) \div 2

get_attribute_modifier(attribute) == (attribute - 10) \div 2

\* calculate_derived_stats, as the four values it assigns.
MaxHitPointsCeil(v, f, s) == (v + f + s + 2) \div 3

MaxHitPointsOf(v, f, s) == (v + f + s) \div 3

MovementCeil(v, f) == (v + f + 1) \div 2

MovementOf(v, f) == (v + f) \div 2

CalcDerived(v, f, s) ==
    /\ max_hit_points' = MaxHitPointsOf(v, f, s)
    /\ hit_points' = MaxHitPointsOf(v, f, s)
    /\ base_inventory_slots' = v
    /\ movement' = MovementOf(v, f)

(***************************************************************************)
(* The age progression table of apply_age_effects (if / elif chain).       *)
(***************************************************************************)
Entry(sp, ab, vt) == [ skill_points |-> sp, attribute_boosts |-> ab, vigor_tests |-> vt ]


\* One branch of the chain: its condition lo <= age <= hi and what it sets.
Row(lo, hi, entry) == [ lo |-> lo, hi |-> hi, entry |-> entry ]

AgeRowsOverlapping ==
    << Row(14, 22, Entry(5, 2, 0)),  Row(22, 26, Entry(5, 3, 0)),
       Row(27, 30, Entry(6, 2, 0)),  Row(31, 34, Entry(7, 1, 1)),
       Row(35, 48, Entry(9, 0, 3)),  Row(49, 52, Entry(11, 0, 5)),
       Row(53, 56, Entry(13, 0, 7)), Row(57, 57, Entry(15, 0, 9)) >>

AgeRows ==
    << Row(14, 22, Entry(5, 2, 0)),  Row(23, 26, Entry(5, 3, 0)),
       Row(27, 30, Entry(6, 2, 0)),  Row(31, 34, Entry(7, 1, 1)),
       Row(35, 48, Entry(9, 0, 3)),  Row(49, 52, Entry(11, 0, 5)),
       Row(53, 56, Entry(13, 0, 7)), Row(57, 57, Entry(15, 0, 9)) >>

\* The branches whose condition an age satisfies.
MatchingRows(a) == { i \in DOMAIN AgeRows : AgeRows[i].lo <= a /\ a <= AgeRows[i].hi }

\* What the chain sets: the first branch whose condition holds.
AgeEntry(a) ==
    AgeRows[CHOOSE i \in MatchingRows(a) : \A j \in MatchingRows(a) : i <= j].entry

(***************************************************************************)
(* Initial state: Character.__init__.                                      *)
(***************************************************************************)
\* The fields of a Character that Character.__init__ has just made.
NewCharacter ==
    [ age |-> 0, skill_points |-> 0, vigor |-> 0, finesse |-> 0, smarts |-> 0,
      hit_points |-> 0, max_hit_points |-> 0, movement |-> 0,
      base_inventory_slots |-> 0, bonus_inventory_slots |-> 0,
      inventory |-> EmptyMap, skills |-> EmptyMap ]

Constructed ==
    /\ age = 0 /\ skill_points = 0
    /\ vigor = 0 /\ finesse = 0 /\ smarts = 0
    /\ hit_points = 0 /\ max_hit_points = 0 /\ movement = 0
    /\ base_inventory_slots = 0 /\ bonus_inventory_slots = 0
    /\ inventory = EmptyMap
    /\ skills = EmptyMap
    /\ pc = "new" /\ boosts_left = 0 /\ tests_left = 0
    /\ test_num = 0 /\ dice_to_roll = 0 /\ successes = 0 /\ five_or_six = FALSE
    /\ chosen_attr = "none" /\ start_vigor = 0 /\ age_warning = FALSE
    /\ call = NoCall /\ inv_ops = 0
    /\ catalog = << >> /\ alloc = "out" /\ alloc_event = "none"
    /\ typed = << >> /\ dice = NoRoll /\ caller = NoCaller
    /\ generated = NoneGenerated
    /\ quest_status = NewQuests /\ active_quests = << >>
    /\ completed_quests = << >> /\ quests_completed = 0
    /\ player = "none" /\ loaded_player = NewCharacter /\ quest_ops = 0

(***************************************************************************)
(* The callers of src/main.py assign character.age, roll or set the        *)
(* attributes as often as the user asks ("Roll again", "Set manually"      *)
(* after a roll, main.py:238-271) and call apply_age_effects, which reads  *)
(* the age. Each is a step of its own, taken outside apply_age_effects.    *)
(***************************************************************************)
\* What the last apply_age_effects showed (its warning, its last vigor
\* test, its last choice) is kept until the next operation on the
\* character.
LastAgeingCleared ==
    /\ test_num' = 0 /\ dice_to_roll' = 0 /\ successes' = 0
    /\ five_or_six' = FALSE /\ chosen_attr' = "none" /\ start_vigor' = 0
    /\ age_warning' = FALSE

\* character.age = age (main.py:219, 328, 383)
SetAge(a) ==
    /\ pc \in { "new", "idle" }
    /\ age' = a
    /\ LastAgeingCleared
    /\ UNCHANGED << skill_points, attrVars, derivedVars, pc, boosts_left,
                    tests_left >>
    /\ UNCHANGED << invVars, allocVars, diceVars, creationVars, questVars >>

\* set_manual_attributes (src/main.py): the three prompts, the range test,
\* the assignment and calculate_derived_stats. A KeyboardInterrupt at a
\* prompt returns with nothing assigned (no step).
SetManualAttributes(v, f, s) ==
    /\ pc \in { "new", "idle" }
    /\ \A x \in {v, f, s} : 3 <= x /\ x <= 18
    /\ vigor' = v /\ finesse' = f /\ smarts' = s
    /\ CalcDerived(v, f, s)
    /\ pc' = "idle"
    /\ LastAgeingCleared
    /\ UNCHANGED << age, skill_points, boosts_left, tests_left >>
    /\ UNCHANGED << invVars, allocVars, diceVars, creationVars, questVars >>

\* roll_attributes: three roll_4d6_drop_lowest() results (each the sum of
\* the three highest of four six-sided dice), then calculate_derived_stats.
RollAttributes(v, f, s) ==
    /\ pc \in { "new", "idle" }
    /\ \A x \in {v, f, s} : 3 <= x /\ x <= 18
    /\ vigor' = v /\ finesse' = f /\ smarts' = s
    /\ CalcDerived(v, f, s)
    /\ pc' = "idle"
    /\ LastAgeingCleared
    /\ UNCHANGED << age, skill_points, boosts_left, tests_left >>
    /\ UNCHANGED << invVars, allocVars, diceVars, creationVars, questVars >>

(***************************************************************************)
(* apply_age_effects                                                       *)
(***************************************************************************)
\* What the end of apply_age_effects does once both loops have run:
\* calculate_derived_stats on the attributes as they are then.
FinishAging(v, f, s) ==
    /\ CalcDerived(v, f, s)
    /\ pc' = "idle"

OutOfRangeAgeGrants ==
    /\ skill_points' = skill_points + 5
    /\ age_warning' = TRUE
    /\ UNCHANGED << attrVars, derivedVars, pc,
                    boosts_left, tests_left, test_num, dice_to_roll, successes,
                    five_or_six, chosen_attr, start_vigor >>

\* The age is outside the range: the warning is printed and the method
\* returns.
OutOfRangeAge ==
    /\ age_warning' = TRUE
    /\ UNCHANGED << skill_points, attrVars, derivedVars, pc,
                    boosts_left, tests_left, test_num, dice_to_roll, successes,
                    five_or_six, chosen_attr, start_vigor >>

\* apply_age_effects is entered: range test on self.age, table lookup,
\* skill_points += entry.skill_points. The loops follow.
ApplyAgeEffects ==
    /\ pc = "idle"
    /\ IF ~ (14 <= age /\ age <= 57)
         THEN OutOfRangeAge
         ELSE /\ skill_points + AgeEntry(age).skill_points <= MaxSkillPoints
              /\ skill_points' = skill_points + AgeEntry(age).skill_points
              /\ boosts_left' = AgeEntry(age).attribute_boosts
              /\ tests_left' = AgeEntry(age).vigor_tests
              /\ test_num' = 0 /\ dice_to_roll' = 0 /\ successes' = 0
              /\ five_or_six' = FALSE
              /\ chosen_attr' = "none"
              /\ start_vigor' = vigor
              /\ age_warning' = FALSE
              /\ pc' = IF AgeEntry(age).attribute_boosts > 0 THEN "boost" ELSE "test"
              /\ UNCHANGED << attrVars, derivedVars >>
    /\ UNCHANGED age
    /\ UNCHANGED << invVars, allocVars, diceVars, creationVars, questVars >>

\* setattr(self, attr, value) as the three new attribute values.
WithAttr(attr, value) ==
    [ vigor   |-> IF attr = "vigor" THEN value ELSE vigor,
      finesse |-> IF attr = "finesse" THEN value ELSE finesse,
      smarts  |-> IF attr = "smarts" THEN value ELSE smarts ]

\* _apply_random_attribute_boost: the attributes below the maximum.
BoostCeiling == 18

BoostAvailableAll == AttrNames

BoostAvailable == { attr \in AttrNames : GetAttr(attr) < BoostCeiling }

\* _lose_random_attribute: the attributes above the minimum.
LossFloor == 3

LossAvailableNoFloor == AttrNames

LossAvailable == { attr \in AttrNames : GetAttr(attr) > LossFloor }

\* The step that follows one loop iteration: the next iteration, or the end
\* of apply_age_effects when no iteration is left.
AfterIteration(new, boostsLeft, testsLeft) ==
    /\ vigor' = new.vigor /\ finesse' = new.finesse /\ smarts' = new.smarts
    /\ boosts_left' = boostsLeft
    /\ tests_left' = testsLeft
    /\ IF boostsLeft > 0
         THEN pc' = "boost" /\ UNCHANGED derivedVars
         ELSE IF testsLeft > 0
                THEN pc' = "test" /\ UNCHANGED derivedVars
                ELSE FinishAging(new.vigor, new.finesse, new.smarts)

\* One iteration of the boost loop: _apply_random_attribute_boost.
BoostStep ==
    /\ pc = "boost"
    /\ IF BoostAvailable = {}
         THEN /\ chosen_attr' = "none"
              /\ AfterIteration(WithAttr("none", 0), boosts_left - 1, tests_left)
         ELSE \E attr \in BoostAvailable :
                /\ chosen_attr' = attr
                /\ AfterIteration(WithAttr(attr, GetAttr(attr) + 1),
                                  boosts_left - 1, tests_left)
    /\ UNCHANGED << age, skill_points, test_num, dice_to_roll, successes, five_or_six,
                    start_vigor, age_warning >>
    /\ UNCHANGED << invVars, allocVars, diceVars, creationVars, questVars >>

\* The vigor a test reads: self.vigor at the time of the test.
TestVigorAtBatchStart == start_vigor

TestVigor == vigor

\* dice_to_roll = max(1, vigor_modifier + 1)
DiceToRoll(v) == Max(1, get_attribute_modifier(v) + 1)

SuccessesSixOnly(rolls) == { i \in DOMAIN rolls : rolls[i] >= 6 }

\* successes = [r for r in rolls if r >= 5], as the positions kept.
Successes(rolls) == { i \in DOMAIN rolls : rolls[i] >= 5 }

\* rolls = [random.randint(1, 6) for _ in range(dice_to_roll)]
Rolls(n) == [1..n -> 1..6]

\* The largest pool a test can roll (vigor at its maximum).
MaxDice == DiceToRoll(BoostCeiling)

\* Whether some die of rolls shows 5 or 6.
ShowsFiveOrSix(rolls) == \E i \in DOMAIN rolls : rolls[i] \in { 5, 6 }

\* ShowsFiveOrSix over every outcome of n dice with k successes.
FacesShown == [ n \in 1..MaxDice |-> [ k \in 0..n |->
                 { ShowsFiveOrSix(r) :
                     r \in { q \in Rolls(n) : Cardinality(Successes(q)) = k } } ] ]

\* len(successes) over every outcome of n dice.
SuccessCounts == [ n \in 1..MaxDice |-> { Cardinality(Successes(r)) : r \in Rolls(n) } ]

\* One iteration of the vigor-test loop: _make_vigor_test, and on a failed
\* test _lose_random_attribute.
TestStep ==
    /\ pc = "test"
    /\ LET n == DiceToRoll(TestVigor) IN
       \E k \in SuccessCounts[n] : \E shown \in FacesShown[n][k] :
         /\ dice_to_roll' = n
         /\ successes' = k
         /\ five_or_six' = shown
         /\ test_num' = test_num + 1
         /\ IF k > 0 \/ LossAvailable = {}
              THEN /\ chosen_attr' = "none"
                   /\ AfterIteration(WithAttr("none", 0), boosts_left, tests_left - 1)
              ELSE \E attr \in LossAvailable :
                     /\ chosen_attr' = attr
                     /\ AfterIteration(WithAttr(attr, GetAttr(attr) - 1),
                                       boosts_left, tests_left - 1)
    /\ UNCHANGED << age, skill_points, start_vigor, age_warning >>
    /\ UNCHANGED << invVars, allocVars, diceVars, creationVars, questVars >>

NextAge ==
    \/ \E t \in AttrInputs : SetManualAttributes(t[1], t[2], t[3])
    \/ \E t \in AttrInputs : RollAttributes(t[1], t[2], t[3])
    \* one age of every table range and the two neighbours of the table
    \/ \E a \in { 13, 14, 23, 27, 31, 40, 49, 53, 57, 58 } : SetAge(a)
    \/ ApplyAgeEffects
    \/ BoostStep
    \/ TestStep

SpecAge == Constructed /\ [][NextAge]_vars

(***************************************************************************)
(* Item names are strings, modelled as sequences of characters, so that    *)
(* lower() and the substring tests of the inventory code are computed.     *)
(***************************************************************************)
UpperCase == << "A", "B", "C", "D", "E", "F", "G", "H", "I", "J", "K", "L", "M",
                "N", "O", "P", "Q", "R", "S", "T", "U", "V", "W", "X", "Y", "Z" >>

LowerCase == << "a", "b", "c", "d", "e", "f", "g", "h", "i", "j", "k", "l", "m",
                "n", "o", "p", "q", "r", "s", "t", "u", "v", "w", "x", "y", "z" >>

LowerChar(c) ==
    IF \E i \in DOMAIN UpperCase : UpperCase[i] = c
      THEN LowerCase[CHOOSE i \in DOMAIN UpperCase : UpperCase[i] = c]
      ELSE c

\* str.lower()
Lower(str) == [ i \in DOMAIN str |-> LowerChar(str[i]) ]

\* sub in str
Contains(sub, str) ==
    \E i \in 1..(Len(str) - Len(sub) + 1) : SubSeq(str, i, i + Len(sub) - 1) = sub

KwBackpack   == << "b", "a", "c", "k", "p", "a", "c", "k" >>
KwSaddlebags == << "s", "a", "d", "d", "l", "e", "b", "a", "g", "s" >>

\* The item names handed to add_item and remove_item.
Rope         == << "R", "o", "p", "e" >>
HuntingRifle == << "H", "u", "n", "t", "i", "n", "g", " ", "R", "i", "f", "l", "e" >>
Vest         == << "V", "e", "s", "t" >>
Backpack     == << "B", "a", "c", "k", "p", "a", "c", "k" >>
Saddlebags   == << "S", "a", "d", "d", "l", "e", "b", "a", "g", "s" >>
ArmoredSaddlebags == << "A", "r", "m", "o", "r", "e", "d", " " >> \o Saddlebags

ItemNames == { Rope, HuntingRifle, Vest, Backpack, Saddlebags, ArmoredSaddlebags }

\* The quantities handed to add_item and remove_item.
QtyInputs == { -1, 0, 1, 2 }

\* Calls of add_item and remove_item made on one character.
MaxInvOps == 3

(***************************************************************************)
(* Inventory (src/character.py, "Inventory Management Methods").          *)
(***************************************************************************)
\* _get_item_slot_usage
_get_item_slot_usage(item_name) ==
    LET item_name_lower == Lower(item_name)
        KwRifle      == << "r", "i", "f", "l", "e" >>
        KwShotgun    == << "s", "h", "o", "t", "g", "u", "n" >>
        KwPistol     == << "p", "i", "s", "t", "o", "l" >>
        KwRevolver   == << "r", "e", "v", "o", "l", "v", "e", "r" >>
        KwArmor      == << "a", "r", "m", "o", "r" >>
        KwVest       == << "v", "e", "s", "t" >>
    IN
    IF Contains(KwRifle, item_name_lower) \/ Contains(KwShotgun, item_name_lower) THEN 3
    ELSE IF Contains(KwPistol, item_name_lower) \/ Contains(KwRevolver, item_name_lower) THEN 2
    ELSE IF Contains(KwArmor, item_name_lower) \/ Contains(KwVest, item_name_lower) THEN 2
    ELSE IF Contains(KwBackpack, item_name_lower) \/ Contains(KwSaddlebags, item_name_lower) THEN 0
    ELSE 1

\* _get_item_slot_usage of every name in use, computed once.
SlotUsage == [ item_name \in ItemNames |-> _get_item_slot_usage(item_name) ]

\* Whether the name has 'backpack', and whether it has 'saddlebags', in its
\* lower-case form, computed once for every name in use.
HasBackpack == [ item_name \in ItemNames |-> Contains(KwBackpack, Lower(item_name)) ]

HasSaddlebags == [ item_name \in ItemNames |-> Contains(KwSaddlebags, Lower(item_name)) ]

\* get_used_inventory_slots, on the mapping inv.
RECURSIVE SlotsOf(_, _)
SlotsOf(inv, names) ==
    IF names = {} THEN 0
    ELSE LET item_name == CHOOSE n \in names : TRUE
         IN  SlotUsage[item_name] * inv[item_name]
               + SlotsOf(inv, names \ { item_name })

get_used_inventory_slots(inv) == SlotsOf(inv, DOMAIN inv)

\* get_total_inventory_slots
get_total_inventory_slots(base, bonus) == base + bonus

\* get_available_inventory_slots
get_available_inventory_slots(inv, base, bonus) ==
    get_total_inventory_slots(base, bonus) - get_used_inventory_slots(inv)

\* can_add_item
CanAddStrict(item_name, quantity) ==
    LET slots_needed == SlotUsage[item_name] * quantity
    IN  get_available_inventory_slots(inventory, base_inventory_slots,
                                      bonus_inventory_slots) > slots_needed

can_add_item(item_name, quantity) ==
    LET slots_needed == SlotUsage[item_name] * quantity
    IN  get_available_inventory_slots(inventory, base_inventory_slots,
                                      bonus_inventory_slots) >= slots_needed

\* The slots add_item grants for the item: the backpack branch, else the
\* saddlebags branch, else none.
AddBonus(item_name, quantity) ==
    IF HasBackpack[item_name] THEN 5
    ELSE IF HasSaddlebags[item_name] THEN 8
    ELSE 0

\* The slots remove_item takes back for the item.
RemoveBonusFlat(item_name, quantity) ==
    IF HasBackpack[item_name] THEN 5
    ELSE IF HasSaddlebags[item_name] THEN 8
    ELSE 0

RemoveBonus(item_name, quantity) ==
    IF HasBackpack[item_name] THEN 5 * quantity
    ELSE IF HasSaddlebags[item_name] THEN 8 * quantity
    ELSE 0

\* inv with inv[item_name] = quantity.
Put(inv, item_name, quantity) ==
    [ n \in DOMAIN inv \cup { item_name } |->
        IF n = item_name THEN quantity ELSE inv[n] ]

\* inv after del inv[item_name].
Del(inv, item_name) == [ n \in DOMAIN inv \ { item_name } |-> inv[n] ]

\* The inventory fields as a call finds them.
Before == [ inventory |-> inventory, bonus |-> bonus_inventory_slots ]

\* The call that led to the state: its arguments, its return value, the
\* fields it found, and whether every call so far was given a quantity >= 1.
Call(op, item_name, quantity, result) ==
    [ op |-> op, item_name |-> item_name, quantity |-> quantity,
      result |-> result, before |-> Before,
      positive |-> call.positive /\ quantity >= 1 ]

\* add_item
add_item(item_name, quantity) ==
    /\ inv_ops < MaxInvOps
    /\ inv_ops' = inv_ops + 1
    /\ IF ~ can_add_item(item_name, quantity)
         THEN /\ call' = Call("add_item", item_name, quantity, FALSE)
              /\ UNCHANGED << inventory, bonus_inventory_slots >>
         ELSE /\ inventory' =
                    IF item_name \in DOMAIN inventory
                      THEN Put(inventory, item_name, inventory[item_name] + quantity)
                      ELSE Put(inventory, item_name, quantity)
              /\ bonus_inventory_slots' =
                    bonus_inventory_slots + AddBonus(item_name, quantity)
              /\ call' = Call("add_item", item_name, quantity, TRUE)
    /\ UNCHANGED << age, skill_points, attrVars, derivedVars, ageVars, allocVars,
                    diceVars, creationVars, questVars >>

\* Whether remove_item deletes the entry it has just decremented.
EntryGone(quantity_left) == quantity_left <= 0

\* remove_item
remove_item(item_name, quantity) ==
    /\ inv_ops < MaxInvOps
    /\ inv_ops' = inv_ops + 1
    /\ IF item_name \notin DOMAIN inventory
         THEN /\ call' = Call("remove_item", item_name, quantity, FALSE)
              /\ UNCHANGED << inventory, bonus_inventory_slots >>
         ELSE IF inventory[item_name] < quantity
         THEN /\ call' = Call("remove_item", item_name, quantity, FALSE)
              /\ UNCHANGED << inventory, bonus_inventory_slots >>
         ELSE /\ bonus_inventory_slots' =
                    bonus_inventory_slots - RemoveBonus(item_name, quantity)
              /\ inventory' =
                    IF EntryGone(inventory[item_name] - quantity)
                      THEN Del(inventory, item_name)
                      ELSE Put(inventory, item_name, inventory[item_name] - quantity)
              /\ call' = Call("remove_item", item_name, quantity, TRUE)
    /\ UNCHANGED << age, skill_points, attrVars, derivedVars, ageVars, allocVars,
                    diceVars, creationVars, questVars >>

\* A created character: attributes set, derived stats computed, nothing held.
InvStartAttrs == { << 3, 3, 3 >>, << 4, 3, 18 >> }

InitInv ==
    \E t \in InvStartAttrs :
      /\ age = 0 /\ skill_points = 0
      /\ vigor = t[1] /\ finesse = t[2] /\ smarts = t[3]
      /\ max_hit_points = MaxHitPointsOf(t[1], t[2], t[3])
      /\ hit_points = MaxHitPointsOf(t[1], t[2], t[3])
      /\ movement = MovementOf(t[1], t[2])
      /\ base_inventory_slots = t[1] /\ bonus_inventory_slots = 0
      /\ inventory = EmptyMap
      /\ skills = EmptyMap
      /\ pc = "idle" /\ boosts_left = 0 /\ tests_left = 0
      /\ test_num = 0 /\ dice_to_roll = 0 /\ successes = 0 /\ five_or_six = FALSE
      /\ chosen_attr = "none" /\ start_vigor = 0 /\ age_warning = FALSE
      /\ call = NoCall /\ inv_ops = 0
      /\ catalog = << >> /\ alloc = "out" /\ alloc_event = "none"
      /\ typed = << >> /\ dice = NoRoll /\ caller = NoCaller
      /\ generated = NoneGenerated
      /\ quest_status = NewQuests /\ active_quests = << >>
      /\ completed_quests = << >> /\ quests_completed = 0
      /\ player = "none" /\ loaded_player = NewCharacter /\ quest_ops = 0

NextInv ==
    \/ \E item_name \in ItemNames, quantity \in QtyInputs : add_item(item_name, quantity)
    \/ \E item_name \in ItemNames, quantity \in QtyInputs : remove_item(item_name, quantity)

SpecInv == InitInv /\ [][NextInv]_vars

(***************************************************************************)
(* Character.from_dict (src/character.py): a saved dictionary is loaded    *)
(* into a character (FileManager.load_character, GameState.from_dict).     *)
(* A dictionary is modelled by its key set and its values; a JSON value    *)
(* that may be a list or a dictionary carries its type.                    *)
(***************************************************************************)
\* The dictionaries loaded: a save with out-of-range values and the legacy
\* list inventory, a save written by to_dict, a legacy save with the
\* required fields only, and a save whose derived stats do not fit its
\* attributes.
LoadInputs ==
    { [ keys |-> { "vigor", "finesse", "smarts", "movement", "inventory",
                   "skill_points", "bonus_inventory_slots" },
        vigor |-> 25, finesse |-> 1, smarts |-> 10, movement |-> 0,
        inventory |-> [ type |-> "list", value |-> << Rope, Rope, Backpack >> ],
        skill_points |-> 40, bonus_inventory_slots |-> 3 ],
      [ keys |-> { "age", "skill_points", "vigor", "finesse", "smarts",
                   "hit_points", "max_hit_points", "movement", "skills",
                   "inventory", "base_inventory_slots", "bonus_inventory_slots" },
        age |-> 20, skill_points |-> 0, vigor |-> 10, finesse |-> 11,
        smarts |-> 12, hit_points |-> 11, max_hit_points |-> 11,
        movement |-> 10, skills |-> Put(EmptyMap, "acting", 2),
        inventory |-> [ type |-> "dict",
                        value |-> Put(Put(EmptyMap, Backpack, 1), Rope, 2) ],
        base_inventory_slots |-> 10, bonus_inventory_slots |-> 5 ],
      [ keys |-> { "vigor", "finesse", "smarts" },
        vigor |-> 12, finesse |-> 9, smarts |-> 14 ],
      [ keys |-> { "vigor", "finesse", "smarts", "hit_points", "movement",
                   "base_inventory_slots", "inventory" },
        vigor |-> 18, finesse |-> 18, smarts |-> 3, hit_points |-> 99,
        movement |-> 7, base_inventory_slots |-> 2,
        inventory |-> [ type |-> "dict", value |-> Put(EmptyMap, HuntingRifle, 2) ] ] }

\* The field after "for key, value in data.items(): setattr(self, key, value)".
Loaded(data, key, current) == IF key \in data.keys THEN data[key] ELSE current

\* The legacy conversion: one count per occurrence in the list.
RECURSIVE CountItems(_, _)
CountItems(inv, old_inventory) ==
    IF old_inventory = << >> THEN inv
    ELSE LET item == Head(old_inventory)
         IN  CountItems(IF item \in DOMAIN inv
                          THEN Put(inv, item, inv[item] + 1)
                          ELSE Put(inv, item, 1),
                        Tail(old_inventory))

\* Character.from_dict(data) on the Character with the fields self: the
\* fields afterwards.
Character_from_dict(self, data) ==
    LET v == Loaded(data, "vigor", self.vigor)
        f == Loaded(data, "finesse", self.finesse)
        s == Loaded(data, "smarts", self.smarts)
        recalculated == Loaded(data, "movement", self.movement) = 0
        loaded_inventory ==
          Loaded(data, "inventory", [ type |-> "dict", value |-> self.inventory ])
    IN  [ age |-> Loaded(data, "age", self.age),
          skill_points |-> Loaded(data, "skill_points", self.skill_points),
          vigor |-> v, finesse |-> f, smarts |-> s,
          skills |-> Loaded(data, "skills", self.skills),
          bonus_inventory_slots |->
            Loaded(data, "bonus_inventory_slots", self.bonus_inventory_slots),
          max_hit_points |->
            IF recalculated THEN MaxHitPointsOf(v, f, s)
            ELSE Loaded(data, "max_hit_points", self.max_hit_points),
          hit_points |->
            IF recalculated THEN MaxHitPointsOf(v, f, s)
            ELSE Loaded(data, "hit_points", self.hit_points),
          base_inventory_slots |->
            IF recalculated THEN v
            ELSE Loaded(data, "base_inventory_slots", self.base_inventory_slots),
          movement |->
            IF recalculated THEN MovementOf(v, f)
            ELSE Loaded(data, "movement", self.movement),
          inventory |-> IF loaded_inventory.type = "list"
                          THEN CountItems(EmptyMap, loaded_inventory.value)
                          ELSE loaded_inventory.value ]

\* character.from_dict(data) on the character of the state, outside
\* apply_age_effects.
from_dict(data) ==
    /\ pc \in { "new", "idle" }
    /\ LET self == [ age |-> age, skill_points |-> skill_points,
                     vigor |-> vigor, finesse |-> finesse, smarts |-> smarts,
                     hit_points |-> hit_points,
                     max_hit_points |-> max_hit_points, movement |-> movement,
                     base_inventory_slots |-> base_inventory_slots,
                     bonus_inventory_slots |-> bonus_inventory_slots,
                     inventory |-> inventory, skills |-> skills ]
           new == Character_from_dict(self, data)
       IN  /\ age' = new.age /\ skill_points' = new.skill_points
           /\ vigor' = new.vigor /\ finesse' = new.finesse
           /\ smarts' = new.smarts
           /\ hit_points' = new.hit_points
           /\ max_hit_points' = new.max_hit_points
           /\ movement' = new.movement
           /\ base_inventory_slots' = new.base_inventory_slots
           /\ bonus_inventory_slots' = new.bonus_inventory_slots
           /\ inventory' = new.inventory /\ skills' = new.skills
    /\ UNCHANGED << ageVars, call, inv_ops, catalog, alloc, alloc_event, typed,
                    diceVars, creationVars, questVars >>

\* A character is created, loaded from a save, and its inventory used.
NextLoad ==
    \/ \E data \in LoadInputs : from_dict(data)
    \/ NextInv

SpecLoad == Constructed /\ [][NextLoad]_vars

(***************************************************************************)
(* allocate_skill_points: the prompt loop. What the user types is a string *)
(* (a sequence of characters); int() is computed on it.                    *)
(***************************************************************************)
Digits == << "0", "1", "2", "3", "4", "5", "6", "7", "8", "9" >>

\* A character is a string: an ASCII character stands for itself, another
\* one is written by its code point. The Arabic-Indic digits stand for the
\* decimal digits outside ASCII that int() accepts.
ArabicIndicDigits == << "U+0660", "U+0661", "U+0662", "U+0663", "U+0664",
                        "U+0665", "U+0666", "U+0667", "U+0668", "U+0669" >>

IsDigit(c) ==
    \E i \in DOMAIN Digits : Digits[i] = c \/ ArabicIndicDigits[i] = c

DigitValue(c) ==
    (CHOOSE i \in DOMAIN Digits : Digits[i] = c \/ ArabicIndicDigits[i] = c) - 1

\* The white space int() skips at both ends of its argument.
RECURSIVE Strip(_)
Strip(str) ==
    LET whitespace ==
          { " ", "\t", "\n", "\r", "\f", "U+000B", "U+0085", "U+00A0", "U+1680", "U+2000", "U+2001",
            "U+2002", "U+2003", "U+2004", "U+2005", "U+2006", "U+2007",
            "U+2008", "U+2009", "U+200A", "U+2028", "U+2029", "U+202F",
            "U+205F", "U+3000" }
    IN
    IF str = << >> THEN str
    ELSE IF Head(str) \in whitespace THEN Strip(Tail(str))
    ELSE IF str[Len(str)] \in whitespace THEN Strip(SubSeq(str, 1, Len(str) - 1))
    ELSE str

RECURSIVE DecimalValue(_)
DecimalValue(ds) ==
    IF ds = << >> THEN 0
    ELSE 10 * DecimalValue(SubSeq(ds, 1, Len(ds) - 1)) + DigitValue(ds[Len(ds)])

\* int(user_input): white space around, an optional sign, then decimal
\* digits with single underscores allowed between two digits; anything
\* else raises ValueError.
IntOf(str) ==
    LET t == Strip(str)
        signed == t # << >> /\ Head(t) \in { "+", "-" }
        ds == IF signed THEN Tail(t) ELSE t
        literal ==
          /\ ds # << >>
          /\ IsDigit(ds[1]) /\ IsDigit(ds[Len(ds)])
          /\ \A i \in DOMAIN ds : IsDigit(ds[i]) \/ ds[i] = "_"
          /\ \A i \in 1..(Len(ds) - 1) : ~ (ds[i] = "_" /\ ds[i + 1] = "_")
        magnitude == DecimalValue(SelectSeq(ds, IsDigit))
        ValueError == [ ok |-> FALSE, value |-> 0 ]
        Parsed(n) == [ ok |-> TRUE, value |-> n ]
    IN  IF ~ literal THEN ValueError
        ELSE IF signed /\ Head(t) = "-" THEN Parsed(0 - magnitude)
        ELSE Parsed(magnitude)

\* The text Prompt.ask returns at the selection prompt.
UserInputs ==
    { << "?" >>, << "H", "e", "l", "p" >>, << "0" >>, << "1" >>, << "2" >>,
      << "3" >>, << "4" >>, << "5" >>, << " ", "2" >>, << "\t", "2" >>,
      << "0", "0" >>, << "0", "_", "0" >>, << "1", "_", "0" >>,
      << "1", "_" >>, << "U+0663" >>, << "U+00A0", "2" >>, << "-", "1" >>,
      << "x" >>, << >> }

\* int() of every input in use, computed once.
ParsedInput == [ user_input \in UserInputs |-> IntOf(user_input) ]

IsHelp == [ user_input \in UserInputs |->
              user_input = << "?" >> \/ Lower(user_input) = << "h", "e", "l", "p" >> ]


\* The names of the skills: those of the default catalog, and the name
\* add_skill gives the key "aaa".
SkillNames ==
    [ key \in { "aaa", "acting", "agriculture", "animals", "athletics" } |->
        CASE key = "aaa" -> << "A", "a", "a" >>
          [] key = "acting" -> << "A", "c", "t", "i", "n", "g" >>
          [] key = "agriculture" ->
               << "A", "g", "r", "i", "c", "u", "l", "t", "u", "r", "e" >>
          [] key = "animals" -> << "A", "n", "i", "m", "a", "l", "s" >>
          [] key = "athletics" ->
               << "A", "t", "h", "l", "e", "t", "i", "c", "s" >> ]

\* name1 < name2 as Python compares strings of letters: by code point, a
\* capital before every small letter, a prefix before its extensions.
RECURSIVE NameBefore(_, _)
NameBefore(name1, name2) ==
    LET code(c) == CHOOSE i \in 1..52 : (UpperCase \o LowerCase)[i] = c IN
    IF name2 = << >> THEN FALSE
    ELSE IF name1 = << >> THEN TRUE
    ELSE IF Head(name1) # Head(name2) THEN code(Head(name1)) < code(Head(name2))
    ELSE NameBefore(Tail(name1), Tail(name2))

\* The catalog files loaded: the first n skills of the default catalog.
MaxCatalog == 3

\* The catalogs get_skill_list() returns: the first keys of the default
\* skill catalog (src/skills.py) in its order, sorted by skill name.
Catalogs ==
    { SubSeq(<< "acting", "agriculture", "animals", "athletics" >>, 1, n) :
        n \in 0..MaxCatalog }

\* The level cap of creation-time allocation.
LevelCap == 3

\* self.skills.get(skill_key, 0)
SkillLevel(ledger, skill_key) ==
    IF skill_key \in DOMAIN ledger THEN ledger[skill_key] ELSE 0

SetLevelOneMore(ledger, skill_key, level) ==
    [ k \in DOMAIN ledger \cup { skill_key } |->
        IF k = skill_key THEN level + 1 ELSE ledger[k] ]

\* self.skills[skill_key] = level
SetLevel(ledger, skill_key, level) ==
    [ k \in DOMAIN ledger \cup { skill_key } |->
        IF k = skill_key THEN level ELSE ledger[k] ]

allocFrame == << age, attrVars, derivedVars, ageVars, invVars, catalog, diceVars,
                creationVars, questVars >>

\* skill_manager.add_skill(key, name, attribute) with the name SkillNames
\* has for the key: get_skill_list() (sorted by name, equal names in the
\* order of insertion) has the key at its place from then on. The skill
\* manager is changed before allocate_skill_points is called: while the
\* method runs, only its own code does.
add_skill(key) ==
    /\ alloc = "out"
    /\ catalog' =
         IF \E i \in DOMAIN catalog : catalog[i] = key THEN catalog
         ELSE LET n == Cardinality({ i \in DOMAIN catalog :
                         ~ NameBefore(SkillNames[key], SkillNames[catalog[i]]) })
              IN  SubSeq(catalog, 1, n) \o << key >>
                    \o SubSeq(catalog, n + 1, Len(catalog))
    /\ UNCHANGED << age, skill_points, attrVars, derivedVars, ageVars, invVars,
                    skills, alloc, alloc_event, typed, diceVars, creationVars,
                    questVars >>

\* skill_manager.reload_skills(): the catalog is what the skills file holds.
reload_skills(file_skills) ==
    /\ alloc = "out"
    /\ catalog' = file_skills
    /\ UNCHANGED << age, skill_points, attrVars, derivedVars, ageVars, invVars,
                    skills, alloc, alloc_event, typed, diceVars, creationVars,
                    questVars >>

\* allocate_skill_points is called: it returns at once without points,
\* else the loop shows its first prompt.
AllocateSkillPoints ==
    /\ alloc = "out"
    /\ IF skill_points <= 0
         THEN alloc' = "returned" /\ alloc_event' = "no_points"
         ELSE alloc' = "prompt" /\ alloc_event' = "none"
    /\ UNCHANGED << skill_points, skills, typed, allocFrame >>

LoopAlways(points) == "prompt"

\* The loop continues (while self.skill_points > 0) or the method returns.
LoopOrReturn(points) == IF points > 0 THEN "prompt" ELSE "returned"

AtCapAbove(current_level) == current_level > LevelCap

AtCapNever(current_level) == FALSE

\* Whether a selection at the given level is refused.
AtCap(current_level) == current_level >= LevelCap

\* The levels the ledger holds, all skills together.
RECURSIVE LedgerTotal(_)
LedgerTotal(ledger) ==
    IF DOMAIN ledger = { } THEN 0
    ELSE LET k == CHOOSE key \in DOMAIN ledger : TRUE
         IN  ledger[k] + LedgerTotal([ j \in DOMAIN ledger \ { k } |-> ledger[j] ])

\* The level-ups the loop would still accept: for every skill of the list,
\* the levels between its current level and the cap (a selection is taken
\* only while current_level < 3).
RECURSIVE LevelUpsLeft(_, _)
LevelUpsLeft(ledger, skills_list) ==
    IF skills_list = << >> THEN 0
    ELSE LET current_level == SkillLevel(ledger, Head(skills_list))
         IN  (IF AtCap(current_level) THEN 0 ELSE LevelCap - current_level)
               + LevelUpsLeft(ledger, Tail(skills_list))

\* The text read at the selection prompt is handled, up to the next wait
\* of the method: the pause prompt that follows a message ("Press Enter to
\* continue", "Press Enter to return to skill selection" after the help
\* screen), or the animation that follows a level-up.
Answer(user_input) ==
    /\ alloc = "prompt"
    /\ typed' = user_input
    /\ IF IsHelp[user_input]
         THEN /\ alloc_event' = "help" /\ alloc' = "pause"
              /\ UNCHANGED << skill_points, skills >>
         ELSE IF ~ ParsedInput[user_input].ok
         THEN /\ alloc_event' = "invalid_input" /\ alloc' = "pause"
              /\ UNCHANGED << skill_points, skills >>
         ELSE LET choice == ParsedInput[user_input].value IN
              IF choice = 0
                THEN IF skill_points > 0
                       THEN /\ alloc_event' = "must_spend" /\ alloc' = "pause"
                            /\ UNCHANGED << skill_points, skills >>
                       ELSE /\ alloc_event' = "finished"
                            /\ alloc' = "returned"
                            /\ UNCHANGED << skill_points, skills >>
              ELSE IF 1 <= choice /\ choice <= Len(catalog)
                THEN LET skill_key == catalog[choice]
                         current_level == SkillLevel(skills, skill_key)
                     IN  IF AtCap(current_level)
                           THEN /\ alloc_event' = "at_max" /\ alloc' = "pause"
                                /\ UNCHANGED << skill_points, skills >>
                           ELSE /\ skills' = SetLevel(skills, skill_key, current_level + 1)
                                /\ skill_points' = skill_points - 1
                                /\ alloc_event' = "improved"
                                /\ alloc' = "animation"
                ELSE /\ alloc_event' = "invalid_selection" /\ alloc' = "pause"
                     /\ UNCHANGED << skill_points, skills >>
    /\ UNCHANGED allocFrame

\* The pause prompt returns (its text is not looked at), or the animation
\* and the sleep after a level-up end: the loop tests skill_points again.
Resume ==
    /\ alloc \in { "pause", "animation" }
    /\ alloc' = LoopOrReturn(skill_points)
    /\ UNCHANGED << skill_points, skills, alloc_event, typed, allocFrame >>

\* KeyboardInterrupt while the method waits. Inside the try block (the
\* selection prompt, the pause prompts of the refusals and of the help
\* screen, the animation) it is caught: "Skill allocation cancelled",
\* break. The pause prompt of the ValueError handler is outside the try
\* block: the exception leaves the method.
Cancel ==
    /\ alloc \in { "prompt", "pause", "animation" }
    /\ IF alloc = "pause" /\ alloc_event = "invalid_input"
         THEN alloc' = "raised" /\ UNCHANGED alloc_event
         ELSE alloc' = "returned" /\ alloc_event' = "cancelled"
    /\ UNCHANGED << skill_points, skills, typed, allocFrame >>

\* A created character whose ageing has granted the budget, and the catalog
\* the skill manager has loaded.
InitAlloc ==
    \E t \in InvStartAttrs, budget \in { 0, 5, 6, 7, 9, 10 }, list \in Catalogs :
      /\ age = 0 /\ skill_points = budget
      /\ vigor = t[1] /\ finesse = t[2] /\ smarts = t[3]
      /\ max_hit_points = MaxHitPointsOf(t[1], t[2], t[3])
      /\ hit_points = MaxHitPointsOf(t[1], t[2], t[3])
      /\ movement = MovementOf(t[1], t[2])
      /\ base_inventory_slots = t[1] /\ bonus_inventory_slots = 0
      /\ inventory = EmptyMap
      /\ skills = EmptyMap
      /\ pc = "idle" /\ boosts_left = 0 /\ tests_left = 0
      /\ test_num = 0 /\ dice_to_roll = 0 /\ successes = 0 /\ five_or_six = FALSE
      /\ chosen_attr = "none" /\ start_vigor = 0 /\ age_warning = FALSE
      /\ call = NoCall /\ inv_ops = 0
      /\ catalog = list /\ alloc = "out" /\ alloc_event = "none"
      /\ typed = << >> /\ dice = NoRoll /\ caller = NoCaller
      /\ generated = NoneGenerated
      /\ quest_status = NewQuests /\ active_quests = << >>
      /\ completed_quests = << >> /\ quests_completed = 0
      /\ player = "none" /\ loaded_player = NewCharacter /\ quest_ops = 0

NextAlloc ==
    \/ AllocateSkillPoints
    \/ \E user_input \in UserInputs : Answer(user_input)
    \/ Resume
    \/ Cancel
    \/ add_skill("aaa")
    \/ \E file_skills \in Catalogs : reload_skills(file_skills)

SpecAlloc == InitAlloc /\ [][NextAlloc]_vars

(***************************************************************************)
(* roll_dice (src/dice.py): validation, one pass of the loop of            *)
(* _roll_single_die per step, then sorting, dropping and summing.          *)
(***************************************************************************)
\* The most dice one call rolls.
MaxNumDice == 3

\* The most times the dice of one call explode.
MaxExplosions == 2

SidesInputs == { 0, 1, 2, 3 }

DropInputs == { -1, 0, 1, 2 }

\* reroll_below: None, or a threshold.
RerollNone == [ set |-> FALSE, value |-> 0 ]


Min(a, b) == IF a <= b THEN a ELSE b

\* A slice index as Python reads it: negative counts from the end, and both
\* ends are clamped to the list.
SliceIndex(i, n) == IF i < 0 THEN Max(i + n, 0) ELSE Min(i, n)

\* s[start:stop]
Slice(s, start, stop) ==
    LET a == SliceIndex(start, Len(s))
        b == SliceIndex(stop, Len(s))
    IN  IF a >= b THEN << >> ELSE SubSeq(s, a + 1, b)

\* One die total put in its place in a list sorted highest first.
RECURSIVE InsertDesc(_, _)
InsertDesc(x, s) ==
    IF s = << >> THEN << x >>
    ELSE IF x >= Head(s) THEN << x >> \o s
    ELSE << Head(s) >> \o InsertDesc(x, Tail(s))

\* sorted(all_rolls, reverse=True)
RECURSIVE SortedDesc(_)
SortedDesc(s) == IF s = << >> THEN << >> ELSE InsertDesc(Head(s), SortedDesc(Tail(s)))

\* sum(kept_rolls)
RECURSIVE Sum(_)
Sum(s) == IF s = << >> THEN 0 ELSE Head(s) + Sum(Tail(s))

\* The parameter validation: the three tests that raise ValueError.
DropTestExclusive(num_dice, drop_lowest, drop_highest) ==
    drop_lowest + drop_highest > num_dice

DropTest(num_dice, drop_lowest, drop_highest) ==
    drop_lowest + drop_highest >= num_dice

Rejected(num_dice, sides, drop_lowest, drop_highest) ==
    \/ num_dice <= 0
    \/ sides <= 0
    \/ DropTest(num_dice, drop_lowest, drop_highest)

\* kept_rolls
KeptRolls(sorted_rolls, drop_lowest, drop_highest) ==
    IF drop_lowest > 0
      THEN Slice(sorted_rolls, drop_highest, Len(sorted_rolls) - drop_lowest)
      ELSE Slice(sorted_rolls, drop_highest, Len(sorted_rolls))

\* dropped_rolls
DroppedRolls(sorted_rolls, drop_lowest, drop_highest) ==
    (IF drop_highest > 0 THEN Slice(sorted_rolls, 0, drop_highest) ELSE << >>)
    \o (IF drop_lowest > 0
          THEN Slice(sorted_rolls, 0 - drop_lowest, Len(sorted_rolls))
          ELSE << >>)

\* roll_dice is called: the validation raises, or the first die is about
\* to be rolled.
Entered(num_dice, sides, drop_lowest, drop_highest, reroll, exploding, modifier) ==
               [ pc |-> IF Rejected(num_dice, sides, drop_lowest, drop_highest)
                          THEN "raised" ELSE "rolling",
                 num_dice |-> num_dice, sides |-> sides,
                 drop_lowest |-> drop_lowest, drop_highest |-> drop_highest,
                 reroll_below |-> reroll, exploding |-> exploding,
                 modifier |-> modifier,
                 all_rolls |-> << >>,   \* the die totals so far
                 total |-> 0,           \* total of the die being rolled
                 roll |-> 0,            \* the face drawn last
                 drawn |-> FALSE,       \* whether random.randint was called
                 explosions |-> 0,
                 kept_rolls |-> << >>, dropped_rolls |-> << >>,
                 total_before_modifier |-> 0, result |-> 0 ]

\* roll_dice called directly.
roll_dice(num_dice, sides, drop_lowest, drop_highest, reroll, exploding, modifier) ==
    /\ dice.pc = "idle"
    /\ dice' = Entered(num_dice, sides, drop_lowest, drop_highest, reroll,
                       exploding, modifier)
    /\ UNCHANGED caller
    /\ UNCHANGED << age, skill_points, attrVars, derivedVars, ageVars, invVars,
                    allocVars, creationVars, questVars >>

Roll4d6KeepAll ==
    /\ dice.pc = "idle"
    /\ dice' = Entered(4, 6, 0, 0, RerollNone, FALSE, 0)
    /\ caller' = [ fn |-> "roll_4d6_drop_lowest", returned |-> FALSE, value |-> 0 ]
    /\ UNCHANGED << age, skill_points, attrVars, derivedVars, ageVars, invVars,
                    allocVars, creationVars, questVars >>

\* roll_4d6_drop_lowest: roll_dice(num_dice=4, sides=6, drop_lowest=1)
roll_4d6_drop_lowest ==
    /\ dice.pc = "idle"
    /\ dice' = Entered(4, 6, 1, 0, RerollNone, FALSE, 0)
    /\ caller' = [ fn |-> "roll_4d6_drop_lowest", returned |-> FALSE, value |-> 0 ]
    /\ UNCHANGED << age, skill_points, attrVars, derivedVars, ageVars, invVars,
                    allocVars, creationVars, questVars >>

\* roll_starting_money: roll_dice(num_dice=3, sides=6)
roll_starting_money ==
    /\ dice.pc = "idle"
    /\ dice' = Entered(3, 6, 0, 0, RerollNone, FALSE, 0)
    /\ caller' = [ fn |-> "roll_starting_money", returned |-> FALSE, value |-> 0 ]
    /\ UNCHANGED << age, skill_points, attrVars, derivedVars, ageVars, invVars,
                    allocVars, creationVars, questVars >>

MoneyTimesFive(result) == result * 5

\* roll_dice(...)['result'] * 10
MoneyOf(result) == result * 10

\* What the convenience function returns once roll_dice has returned.
ReturnValue(c, d) ==
    IF d.pc # "returned" \/ c.fn = "none" THEN c
    ELSE [ c EXCEPT !.returned = TRUE,
                    !.value = IF c.fn = "roll_starting_money"
                                THEN MoneyOf(d.result) ELSE d.result ]

\* What follows the last die: sort, keep, drop, sum, return.
Returned(d, all_rolls) ==
    LET sorted_rolls == SortedDesc(all_rolls)
        kept_rolls == KeptRolls(sorted_rolls, d.drop_lowest, d.drop_highest)
    IN  [ d EXCEPT !.pc = "returned",
                   !.all_rolls = all_rolls,
                   !.total = 0,
                   !.kept_rolls = kept_rolls,
                   !.dropped_rolls =
                       DroppedRolls(sorted_rolls, d.drop_lowest, d.drop_highest),
                   !.total_before_modifier = Sum(kept_rolls),
                   !.result = Sum(kept_rolls) + d.modifier ]

\* One pass of the loop of _roll_single_die on the face random.randint
\* gives: re-roll, explode, or end the die (and, after the last die, the
\* rest of roll_dice).
_roll_single_die(face) ==
    /\ dice.pc = "rolling"
    /\ face \in 1..dice.sides
    /\ (dice.exploding /\ face = dice.sides) => dice.explosions < MaxExplosions
    /\ LET d == [ dice EXCEPT !.roll = face, !.drawn = TRUE ] IN
       IF d.reroll_below.set /\ face <= d.reroll_below.value
         THEN dice' = d
         ELSE IF d.exploding /\ face = d.sides
         THEN dice' = [ d EXCEPT !.total = d.total + face,
                                 !.explosions = d.explosions + 1 ]
         ELSE LET all_rolls == Append(d.all_rolls, d.total + face) IN
              IF Len(all_rolls) < d.num_dice
                THEN dice' = [ d EXCEPT !.all_rolls = all_rolls, !.total = 0 ]
                ELSE dice' = Returned(d, all_rolls)
    /\ caller' = ReturnValue(caller, dice')
    /\ UNCHANGED << age, skill_points, attrVars, derivedVars, ageVars, invVars,
                    allocVars, creationVars, questVars >>

NextDice ==
    \/ \E num_dice \in 0..MaxNumDice, sides \in SidesInputs,
          drop_lowest \in DropInputs, drop_highest \in DropInputs,
          reroll \in { RerollNone }
                       \cup { [ set |-> TRUE, value |-> t ] : t \in { 1, 2, 3 } },
          exploding \in BOOLEAN, modifier \in { 0, 2 } :
         roll_dice(num_dice, sides, drop_lowest, drop_highest, reroll,
                   exploding, modifier)
    \/ \E face \in SidesInputs : _roll_single_die(face)

SpecDice == Constructed /\ [][NextDice]_vars

\* A fair random source: a face that stays drawable is drawn in the end.
SpecDiceFair == Constructed /\ [][NextDice]_vars
                /\ \A face \in SidesInputs : WF_vars(_roll_single_die(face))

\* The faces of the six-sided dice of the convenience functions.
D6 == 1..6

(***************************************************************************)
(* AttributeRoller (src/character_creation.py) and the convenience rolls   *)
(* of src/dice.py.                                                         *)
(***************************************************************************)
\* rolls.sort(reverse=True); return sum(rolls[:3])
SumOfHighestThree(rolls) == Sum(Slice(SortedDesc(rolls), 0, 3))

\* AttributeRoller.roll_4d6_drop_lowest over every outcome of
\* rolls = [random.randint(1, 6) for _ in range(4)].
Roll4d6Values == { SumOfHighestThree(rolls) : rolls \in [1..4 -> D6] }

\* AttributeRoller.roll_4d6_drop_lowest()
AttributeRoller_roll_4d6_drop_lowest ==
    /\ dice.pc = "idle" /\ caller.fn = "none"
    /\ \E value \in Roll4d6Values :
         caller' = [ fn |-> "AttributeRoller.roll_4d6_drop_lowest",
                     returned |-> TRUE, value |-> value ]
    /\ UNCHANGED dice
    /\ UNCHANGED << age, skill_points, attrVars, derivedVars, ageVars, invVars,
                    allocVars, creationVars, questVars >>

NextRolls ==
    \/ roll_4d6_drop_lowest
    \/ roll_starting_money
    \/ AttributeRoller_roll_4d6_drop_lowest
    \/ \E face \in D6 : _roll_single_die(face)

SpecRolls == Constructed /\ [][NextRolls]_vars

(***************************************************************************)
(* The attribute-set generators of AttributeRoller and the validation of  *)
(* an attribute value (src/character_creation.py).                         *)
(***************************************************************************)
\* roll_heroic_attribute over every outcome of its four heroic dice;
\* roll_heroic_die: the loop returns the first roll that is at least 3.
HeroicValues ==
    LET HeroicFaces == { roll \in D6 : roll >= 3 }
    IN  { SumOfHighestThree(rolls) : rolls \in [1..4 -> HeroicFaces] }

\* The dictionary a generator returned.
AttributeSet(generator, v, f, s) ==
    [ generator |-> generator, vigor |-> v, finesse |-> f, smarts |-> s ]

\* AttributeRoller.roll_attribute_set_standard()
roll_attribute_set_standard ==
    /\ \E v \in Roll4d6Values, f \in Roll4d6Values, s \in Roll4d6Values :
         generated' = AttributeSet("roll_attribute_set_standard", v, f, s)
    /\ UNCHANGED << age, skill_points, attrVars, derivedVars, ageVars, invVars,
                    allocVars, diceVars, questVars >>

\* AttributeRoller.roll_attribute_set_heroic()
roll_attribute_set_heroic ==
    /\ \E v \in HeroicValues, f \in HeroicValues, s \in HeroicValues :
         generated' = AttributeSet("roll_attribute_set_heroic", v, f, s)
    /\ UNCHANGED << age, skill_points, attrVars, derivedVars, ageVars, invVars,
                    allocVars, diceVars, questVars >>

\* AttributeRoller.create_point_buy_attributes(points)
create_point_buy_attributes(points) ==
    /\ LET base_score == 10
           points_per_attr == points \div 3
       IN  generated' = AttributeSet("create_point_buy_attributes",
                                     base_score + points_per_attr,
                                     base_score + points_per_attr,
                                     base_score + points_per_attr)
    /\ UNCHANGED << age, skill_points, attrVars, derivedVars, ageVars, invVars,
                    allocVars, diceVars, questVars >>

\* validate_attribute_value(value)[0]
validate_attribute_value(value) ==
    IF value < 3 THEN FALSE
    ELSE IF value > 18 THEN FALSE
    ELSE TRUE

NextCreation ==
    \/ roll_attribute_set_standard
    \/ roll_attribute_set_heroic
    \/ \E points \in { 0, 8, 24, 27 } : create_point_buy_attributes(points)

SpecCreation == Constructed /\ [][NextCreation]_vars

(***************************************************************************)
(* GameState.add_quest, complete_quest and fail_quest                      *)
(* (src/models/game_state.py). The lists hold Quest objects; the status of *)
(* an object is shared by every list that holds it.                        *)
(***************************************************************************)
\* The calls made on one GameState.
MaxQuestOps == 6

\* The ids complete_quest and fail_quest are called with; no quest has "q3".
QuestIdInputs == { "q1", "q2", "q3" }

\* Quest.rewards, as its key set and the list under 'items'.
Rewards ==
    [ o \in QuestObjects |->
        CASE o = "first_again" -> [ keys |-> { "items" }, items |-> << Rope >> ]
          [] o = "second" -> [ keys |-> { "experience" }, items |-> << >> ]
          [] OTHER -> [ keys |-> { }, items |-> << >> ] ]

\* any(q.id == quest_id for q in quests)
HasId(quests, quest_id) ==
    \E i \in DOMAIN quests : QuestId[quests[i]] = quest_id

\* The index enumerate() reaches first with quest.id == quest_id.
FirstWithId(quests, quest_id) ==
    CHOOSE i \in DOMAIN quests :
      /\ QuestId[quests[i]] = quest_id
      /\ \A j \in 1..(i - 1) : QuestId[quests[j]] # quest_id

\* quests.pop(i), the list that is left.
Pop(quests, i) == SubSeq(quests, 1, i - 1) \o SubSeq(quests, i + 1, Len(quests))

\* Every prerequisite is the id of a quest of completed_quests whose status
\* is "completed".
PrerequisitesMet(quest) ==
    \A prereq \in Prerequisites[quest] :
      \E i \in DOMAIN completed_quests :
        /\ QuestId[completed_quests[i]] = prereq
        /\ quest_status[completed_quests[i]] = "completed"

\* GameState.set_player(character)
set_player ==
    /\ quest_ops < MaxQuestOps
    /\ quest_ops' = quest_ops + 1
    /\ player' = "character"
    /\ UNCHANGED << quest_status, active_quests, completed_quests,
                    quests_completed, loaded_player >>
    /\ UNCHANGED << age, skill_points, attrVars, derivedVars, ageVars, invVars,
                    allocVars, diceVars, creationVars >>

\* GameState.add_quest(quest)
add_quest(quest) ==
    /\ quest_ops < MaxQuestOps
    /\ quest_ops' = quest_ops + 1
    /\ IF HasId(active_quests, QuestId[quest])
         THEN UNCHANGED << quest_status, active_quests >>
         ELSE IF ~ PrerequisitesMet(quest)
         THEN UNCHANGED << quest_status, active_quests >>
         ELSE /\ quest_status' = [ quest_status EXCEPT ![quest] = "active" ]
              /\ active_quests' = Append(active_quests, quest)
    /\ UNCHANGED << completed_quests, quests_completed, player, loaded_player >>
    /\ UNCHANGED << age, skill_points, attrVars, derivedVars, ageVars, invVars,
                    allocVars, diceVars, creationVars >>

\* "for item in rewards['items']: self.player.add_item(item)": the
\* player's inventory and bonus slots after the add_item calls, each of
\* quantity 1 and each refused when the item does not fit.
RECURSIVE RewardItems(_, _, _, _)
RewardItems(inv, base, bonus, items) ==
    IF items = << >> THEN [ inventory |-> inv, bonus |-> bonus ]
    ELSE LET item == Head(items)
             fits == get_available_inventory_slots(inv, base, bonus)
                       >= SlotUsage[item] * 1
         IN  IF ~ fits THEN RewardItems(inv, base, bonus, Tail(items))
             ELSE RewardItems(IF item \in DOMAIN inv
                                THEN Put(inv, item, inv[item] + 1)
                                ELSE Put(inv, item, 1),
                              base, bonus + AddBonus(item, 1), Tail(items))

\* GameState.complete_quest(quest_id) with _apply_quest_rewards: without a
\* player the rewards are skipped; with one, 'experience' and 'money' call
\* add_experience and add_dollars, which the Character of src/character.py
\* does not have: AttributeError leaves complete_quest after the quest was
\* moved and before it is counted. 'items' are added to the inventory of
\* the player: the caller's character, or the one from_dict made.
complete_quest(quest_id) ==
    /\ quest_ops < MaxQuestOps
    /\ quest_ops' = quest_ops + 1
    /\ IF HasId(active_quests, quest_id)
         THEN LET i == FirstWithId(active_quests, quest_id)
                  quest == active_quests[i]
                  rewards == Rewards[quest]
                  items == IF "items" \in rewards.keys THEN rewards.items
                           ELSE << >>
                  held == RewardItems(inventory, base_inventory_slots,
                                      bonus_inventory_slots, items)
                  loaded_held ==
                    RewardItems(loaded_player.inventory,
                                loaded_player.base_inventory_slots,
                                loaded_player.bonus_inventory_slots, items)
              IN  /\ quest_status' = [ quest_status EXCEPT ![quest] = "completed" ]
                  /\ active_quests' = Pop(active_quests, i)
                  /\ completed_quests' = Append(completed_quests, quest)
                  /\ IF player = "none"
                       THEN /\ quests_completed' = quests_completed + 1
                            /\ UNCHANGED << inventory, bonus_inventory_slots,
                                            loaded_player >>
                       ELSE IF rewards.keys \cap { "experience", "money" } # { }
                       THEN UNCHANGED << quests_completed, inventory,
                                         bonus_inventory_slots, loaded_player >>
                       ELSE IF player = "character"
                       THEN /\ inventory' = held.inventory
                            /\ bonus_inventory_slots' = held.bonus
                            /\ quests_completed' = quests_completed + 1
                            /\ UNCHANGED loaded_player
                       ELSE /\ loaded_player' =
                                 [ loaded_player EXCEPT
                                     !.inventory = loaded_held.inventory,
                                     !.bonus_inventory_slots = loaded_held.bonus ]
                            /\ quests_completed' = quests_completed + 1
                            /\ UNCHANGED << inventory, bonus_inventory_slots >>
         ELSE UNCHANGED << quest_status, active_quests, completed_quests,
                           quests_completed, inventory, bonus_inventory_slots,
                           loaded_player >>
    /\ UNCHANGED << player, call, inv_ops >>
    /\ UNCHANGED << age, skill_points, attrVars, derivedVars, ageVars,
                    allocVars, diceVars, creationVars >>

\* GameState.fail_quest(quest_id)
fail_quest(quest_id) ==
    /\ quest_ops < MaxQuestOps
    /\ quest_ops' = quest_ops + 1
    /\ IF HasId(active_quests, quest_id)
         THEN LET i == FirstWithId(active_quests, quest_id)
                  quest == active_quests[i]
              IN  /\ quest_status' = [ quest_status EXCEPT ![quest] = "failed" ]
                  /\ active_quests' = Pop(active_quests, i)
         ELSE UNCHANGED << quest_status, active_quests >>
    /\ UNCHANGED << completed_quests, quests_completed, player, loaded_player >>
    /\ UNCHANGED << age, skill_points, attrVars, derivedVars, ageVars, invVars,
                    allocVars, diceVars, creationVars >>

NextQuest ==
    \/ set_player
    \/ \E quest \in { "first", "first_again", "second" } : add_quest(quest)
    \/ \E quest_id \in QuestIdInputs : complete_quest(quest_id)
    \/ \E quest_id \in QuestIdInputs : fail_quest(quest_id)

SpecQuest == InitInv /\ [][NextQuest]_vars

(***************************************************************************)
(* The other writers of the quest lists and of the counter:                *)
(* GameState.update_statistic and GameState.from_dict.                     *)
(***************************************************************************)
\* update_statistic('quests_completed', value): the statistic is a number,
\* the value is added to it.
update_statistic(value) ==
    /\ quest_ops < MaxQuestOps
    /\ quest_ops' = quest_ops + 1
    /\ quests_completed' = quests_completed + value
    /\ UNCHANGED << quest_status, active_quests, completed_quests, player,
                    loaded_player >>
    /\ UNCHANGED << age, skill_points, attrVars, derivedVars, ageVars, invVars,
                    allocVars, diceVars, creationVars >>

\* The saved dictionaries loaded: what to_dict wrote for a game whose
\* player holds one Rope, with a quest id saved in both lists; what it wrote
\* for a game without player ('player': None, here a dictionary without
\* keys, as false as None); and a dictionary with statistics alone. A saved
\* quest is the object made from it and its status.
GameLoadInputs ==
    { [ keys |-> { "player", "active_quests", "completed_quests", "statistics" },
        player |->
          [ keys |-> { "age", "skill_points", "vigor", "finesse", "smarts",
                       "hit_points", "max_hit_points", "movement", "skills",
                       "inventory", "base_inventory_slots",
                       "bonus_inventory_slots" },
            age |-> 20, skill_points |-> 0, vigor |-> 4, finesse |-> 3,
            smarts |-> 18, hit_points |-> 8, max_hit_points |-> 8,
            movement |-> 3, skills |-> EmptyMap,
            inventory |-> [ type |-> "dict", value |-> Put(EmptyMap, Rope, 1) ],
            base_inventory_slots |-> 4, bonus_inventory_slots |-> 0 ],
        active_quests |-> << [ object |-> "loaded_active", status |-> "active" ] >>,
        completed_quests |->
          << [ object |-> "loaded_completed", status |-> "completed" ] >>,
        quests_completed |-> 1 ],
      [ keys |-> { "player", "active_quests", "completed_quests", "statistics" },
        player |-> [ keys |-> { } ],
        active_quests |-> << >>, completed_quests |-> << >>,
        quests_completed |-> 0 ],
      [ keys |-> { "statistics" },
        active_quests |-> << >>, completed_quests |-> << >>,
        quests_completed |-> 2 ] }

\* GameState.from_dict(data): a saved player becomes a new Character loaded
\* by Character.from_dict, each list in the data replaces the list of the
\* state with new Quest objects, statistics.update overwrites the counter.
GameState_from_dict(data) ==
    /\ quest_ops < MaxQuestOps
    /\ quest_ops' = quest_ops + 1
    /\ IF "player" \in data.keys /\ data.player.keys # { }
         THEN /\ player' = "loaded"
              /\ loaded_player' = Character_from_dict(NewCharacter, data.player)
         ELSE UNCHANGED << player, loaded_player >>
    /\ LET saved == (IF "active_quests" \in data.keys
                       THEN data.active_quests ELSE << >>)
                    \o (IF "completed_quests" \in data.keys
                          THEN data.completed_quests ELSE << >>)
       IN  quest_status' =
             [ o \in QuestObjects |->
                 IF \E i \in DOMAIN saved : saved[i].object = o
                   THEN saved[CHOOSE i \in DOMAIN saved : saved[i].object = o].status
                   ELSE quest_status[o] ]
    /\ active_quests' =
         IF "active_quests" \in data.keys
           THEN [ i \in DOMAIN data.active_quests |-> data.active_quests[i].object ]
           ELSE active_quests
    /\ completed_quests' =
         IF "completed_quests" \in data.keys
           THEN [ i \in DOMAIN data.completed_quests |->
                    data.completed_quests[i].object ]
           ELSE completed_quests
    /\ quests_completed' =
         IF "statistics" \in data.keys THEN data.quests_completed
         ELSE quests_completed
    /\ UNCHANGED << age, skill_points, attrVars, derivedVars, ageVars, invVars,
                    allocVars, diceVars, creationVars >>

NextGame ==
    \/ NextQuest
    \/ \E value \in { -1, 3 } : update_statistic(value)
    \/ \E data \in GameLoadInputs : GameState_from_dict(data)

SpecGame == InitInv /\ [][NextGame]_vars

(***************************************************************************)
(* Exact failure rates of vigor tests, counted over the outcomes of the    *)
(* dice: a test of n dice fails on FailWays[n] of the AllWays[n] equally   *)
(* likely roll lists.                                                      *)
(***************************************************************************)
AllWays == [ n \in 1..MaxDice |-> Cardinality(Rolls(n)) ]

FailWays == [ n \in 1..MaxDice |-> Cardinality({ r \in Rolls(n) : Successes(r) = {} }) ]

\* The failure rate of a test of n dice, as a numerator over AllWays[MaxDice].
FailRate(n) == FailWays[n] * (AllWays[MaxDice] \div AllWays[n])

\* A batch of at least two vigor tests is about to make its first test.
BatchStart == pc = "test" /\ test_num = 0 /\ tests_left >= 2

\* The attribute a failed first test takes a point from: each member of
\* LossAvailable with equal chance, or no attribute when none is available.
FirstLossChoices == IF LossAvailable = {} THEN { "none" } ELSE LossAvailable

\* The failure rate of the second test given that the first failed, times
\* the number of loss choices: the sum, over the choices, of the rate of the
\* pool rolled at the vigor that choice leaves.
SecondFailRateSum ==
    LET rate(attr) == FailRate(DiceToRoll(IF attr = "vigor" THEN vigor - 1 ELSE vigor))
        term(attr) == IF attr \in FirstLossChoices THEN rate(attr) ELSE 0
    IN  term("vigor") + term("finesse") + term("smarts") + term("none")

\* The failure rate of one isolated test at the original vigor, on the same
\* scale.
IsolatedFailRateSum == Cardinality(FirstLossChoices) * FailRate(DiceToRoll(vigor))

(***************************************************************************)
(* C1 - attributes stay within [3,18]                                      *)
(***************************************************************************)
\* C1: once the attributes are set within [3,18], every state reached through
\* apply_age_effects calls (any ages, dice and attribute choices) has vigor,
\* finesse and smarts within [3,18].
C1_AttributesInRange ==
    pc # "new" => \A x \in { vigor, finesse, smarts } : 3 <= x /\ x <= 18

\* A failed test met all three attributes at 3 and the loss was absorbed.
C1_Witness ==
    /\ test_num >= 1 /\ successes = 0 /\ chosen_attr = "none"
    /\ vigor = 3 /\ finesse = 3 /\ smarts = 3

(***************************************************************************)
(* C2 - a vigor test sizes its pool on the current vigor                   *)
(***************************************************************************)
\* C2: every vigor test rolls max(1, floor((v - 10) / 2) + 1) dice, v being
\* the vigor in the state the test starts from (as left by the earlier tests
\* of the batch).
C2_PoolFromCurrentVigor ==
    [][ pc = "test" =>
          LET m == (vigor - 10) \div 2
          IN  dice_to_roll' = IF m + 1 >= 1 THEN m + 1 ELSE 1 ]_vars

\* A second or later test rolled a pool other than the one the vigor at the
\* entry of apply_age_effects gives.
C2_Witness ==
    /\ test_num >= 2
    /\ dice_to_roll # Max(1, ((start_vigor - 10) \div 2) + 1)

(***************************************************************************)
(* C3 - cascading failure                                                  *)
(***************************************************************************)
\* C3 as stated: for a low-vigor character (negative vigor modifier) in a
\* batch of two or more tests, the second test fails, given that the first
\* failed, strictly more often than one isolated test at the original vigor.
C3_CascadeAtLowVigor ==
    (BatchStart /\ get_attribute_modifier(vigor) < 0)
        => SecondFailRateSum > IsolatedFailRateSum

\* C3 amended: the conditional rate of the second test is never below the
\* isolated rate, and is strictly above it exactly when the original vigor
\* is even and at least 12, where one lost vigor point removes a die.
C3_CascadeOnlyWhenPoolShrinks ==
    BatchStart =>
        /\ SecondFailRateSum >= IsolatedFailRateSum
        /\ (SecondFailRateSum > IsolatedFailRateSum) <=> (vigor >= 12 /\ vigor % 2 = 0)

\* A batch starts at vigor 12: two dice now, one die after a vigor loss.
C3_Witness == BatchStart /\ vigor = 12 /\ SecondFailRateSum > IsolatedFailRateSum

(***************************************************************************)
(* C4 - the allocation workflow and unspent points                         *)
(***************************************************************************)
\* C4: allocate_skill_points, once started with a positive budget, never
\* returns while skill_points > 0, whatever the way out (finish, cancel).
C4_NoReturnWithUnspentPoints == alloc = "returned" => skill_points = 0

(***************************************************************************)
(* Inventory claims. call describes the add_item or remove_item call that  *)
(* led to the state, call.before the inventory fields it found.            *)
(***************************************************************************)
Held(inv, item_name) == IF item_name \in DOMAIN inv THEN inv[item_name] ELSE 0

\* The two mappings agree on every name but item_name.
SameButFor(inv1, inv2, item_name) ==
    /\ DOMAIN inv1 \ { item_name } = DOMAIN inv2 \ { item_name }
    /\ \A n \in DOMAIN inv1 \ { item_name } : inv1[n] = inv2[n]

\* The slots one unit of a capacity-expanding container stands for.
PerUnit(item_name) ==
    IF HasBackpack[item_name] THEN 5 ELSE IF HasSaddlebags[item_name] THEN 8 ELSE 0

\* C5: after any sequence of add_item and remove_item calls the used slots
\* never exceed base_inventory_slots + bonus_inventory_slots. Stated for the
\* sequences whose quantities are all >= 1, where it already fails.
C5_UsedWithinCapacity ==
    call.positive =>
        get_used_inventory_slots(inventory)
            <= base_inventory_slots + bonus_inventory_slots

\* C6: a successful add_item(name, q) raises bonus_inventory_slots by 5 * q
\* for a backpack, by 8 * q for saddlebags, and by nothing for other items.
\* Stated for q >= 1, where it already fails.
C6_BonusProportionalToQuantity ==
    (call.op = "add_item" /\ call.result /\ call.quantity >= 1)
        => bonus_inventory_slots
             = call.before.bonus + PerUnit(call.item_name) * call.quantity

\* C7: for a container and q >= 1, add_item(name, q) strictly increases the
\* available slots, and remove_item(name, q) right after it restores
\* bonus_inventory_slots, capacity, used slots and contents.
C7_AddThenRemoveRestores ==
    [][ /\ ( /\ call'.op = "add_item" /\ call'.result
              /\ PerUnit(call'.item_name) > 0 /\ call'.quantity >= 1 )
            => get_available_inventory_slots(inventory', base_inventory_slots',
                                             bonus_inventory_slots')
                 > get_available_inventory_slots(inventory, base_inventory_slots,
                                                 bonus_inventory_slots)
        /\ ( /\ call.op = "add_item" /\ call.result
              /\ PerUnit(call.item_name) > 0 /\ call.quantity >= 1
              /\ call'.op = "remove_item"
              /\ call'.item_name = call.item_name
              /\ call'.quantity = call.quantity )
            => /\ call'.result
               /\ bonus_inventory_slots' = call.before.bonus
               /\ inventory' = call.before.inventory
               /\ get_used_inventory_slots(inventory')
                    = get_used_inventory_slots(call.before.inventory)
               /\ base_inventory_slots' + bonus_inventory_slots'
                    = base_inventory_slots + call.before.bonus ]_vars

\* C8: remove_item(name, q) returns False and changes nothing when name is
\* not held or q exceeds the held quantity; otherwise it returns True, the
\* held quantity drops by q, the entry is deleted exactly when it reaches
\* zero, the other entries stay, and bonus_inventory_slots drops by the
\* container's per-unit amount times q.
C8_RemoveItem ==
    call.op = "remove_item" =>
        LET b == call.before
            n == call.item_name
            q == call.quantity
        IN  IF n \notin DOMAIN b.inventory \/ q > Held(b.inventory, n)
              THEN /\ call.result = FALSE
                   /\ inventory = b.inventory
                   /\ bonus_inventory_slots = b.bonus
              ELSE /\ call.result = TRUE
                   /\ Held(inventory, n) = b.inventory[n] - q
                   /\ (n \notin DOMAIN inventory) <=> (b.inventory[n] - q = 0)
                   /\ SameButFor(inventory, b.inventory, n)
                   /\ bonus_inventory_slots = b.bonus - PerUnit(n) * q

\* Two saddlebags were removed at once: the entry is gone, 16 slots are gone.
C8_Witness ==
    /\ call.op = "remove_item" /\ call.result
    /\ call.item_name = Saddlebags /\ call.quantity = 2
    /\ Saddlebags \notin DOMAIN inventory
    /\ bonus_inventory_slots = call.before.bonus - 16

\* C9: add_item(name, q) returns False and changes neither the inventory nor
\* bonus_inventory_slots when slot_cost(name) * q exceeds the available
\* slots; otherwise it returns True and the stored quantity of name grows by
\* exactly q, the entry being created if absent.
C9_AddItem ==
    call.op = "add_item" =>
        LET b == call.before
            n == call.item_name
            q == call.quantity
            available == base_inventory_slots + b.bonus
                           - get_used_inventory_slots(b.inventory)
        IN  IF SlotUsage[n] * q > available
              THEN /\ call.result = FALSE
                   /\ inventory = b.inventory
                   /\ bonus_inventory_slots = b.bonus
              ELSE /\ call.result = TRUE
                   /\ n \in DOMAIN inventory
                   /\ inventory[n] = Held(b.inventory, n) + q
                   /\ SameButFor(inventory, b.inventory, n)

\* An add_item that needed exactly the slots that were left succeeded.
C9_Witness ==
    /\ call.op = "add_item" /\ call.result /\ call.quantity >= 1
    /\ SlotUsage[call.item_name] * call.quantity
         = base_inventory_slots + call.before.bonus
             - get_used_inventory_slots(call.before.inventory)
    /\ call.item_name \notin DOMAIN call.before.inventory

\* C10: every entry of the inventory mapping has quantity >= 1, whatever
\* integer quantities add_item and remove_item were called with.
C10_QuantitiesAtLeastOne == \A n \in DOMAIN inventory : inventory[n] >= 1

(***************************************************************************)
(* C11 - number of kept dice                                               *)
(***************************************************************************)
\* C11: for every configuration the validation of roll_dice accepts, the
\* call returns num_dice - drop_lowest - drop_highest kept dice.
C11_KeptCount ==
    dice.pc = "returned" =>
      Len(dice.kept_rolls) = dice.num_dice - dice.drop_lowest - dice.drop_highest

(***************************************************************************)
(* C12 - every die is resolved in the end                                  *)
(***************************************************************************)
\* C12: with a fair random source, every accepted roll_dice call with
\* sides > 1 (whatever reroll_below and exploding are) finishes resolving its
\* dice and returns.
C12_EveryDieTerminates ==
    (dice.pc = "rolling" /\ dice.sides > 1) ~> (dice.pc = "returned")

(***************************************************************************)
(* C13 - result, kept_rolls and dropped_rolls                              *)
(***************************************************************************)
\* C13: of the die totals sorted highest first, roll_dice removes the
\* drop_highest highest and the drop_lowest lowest; kept_rolls is the
\* remainder, dropped_rolls the removed dice, result the sum of the
\* remainder plus modifier. (A count below 1 removes nothing.)
C13_ResultIsSumOfRemainder ==
    dice.pc = "returned" =>
      LET S == SortedDesc(dice.all_rolls)
          n == Len(S)
          h == Min(Max(dice.drop_highest, 0), n)
          l == Min(Max(dice.drop_lowest, 0), n - h)
          remainder == SubSeq(S, h + 1, n - l)
          removed == SubSeq(S, 1, h) \o SubSeq(S, n - l + 1, n)
      IN  /\ dice.kept_rolls = remainder
          /\ dice.dropped_rolls = removed
          /\ dice.result = Sum(remainder) + dice.modifier

(***************************************************************************)
(* C14 - invalid configurations raise before any draw                      *)
(***************************************************************************)
\* C14: a roll_dice call with num_dice <= 0, sides <= 0 or
\* drop_lowest + drop_highest >= num_dice raises: it draws no random number
\* and never returns a result.
C14_InvalidConfigurationRaises ==
    ( /\ dice.pc # "idle"
      /\ \/ dice.num_dice <= 0
         \/ dice.sides <= 0
         \/ dice.drop_lowest + dice.drop_highest >= dice.num_dice )
    => /\ dice.pc = "raised"
       /\ ~ dice.drawn
       /\ dice.all_rolls = << >>

\* Two dice, both asked to be dropped: the call has raised.
C14_Witness ==
    /\ dice.pc = "raised"
    /\ dice.num_dice = 2 /\ dice.sides = 3
    /\ dice.drop_lowest = 1 /\ dice.drop_highest = 1

(***************************************************************************)
(* C15 - the age table covers [14,57] exactly once                         *)
(***************************************************************************)
\* C15: every age from 14 to 57 satisfies the condition of exactly one
\* branch of the age table, ages 13 and 58 satisfy none, and ageing is only
\* ever in progress for an age that has its one entry: a call with an age
\* outside [14,57] is turned away.
C15_TableCoversEachAgeOnce ==
    /\ \A a \in 13..58 :
         Cardinality(MatchingRows(a)) = IF 14 <= a /\ a <= 57 THEN 1 ELSE 0
    /\ pc \in { "boost", "test" } =>
         /\ 14 <= age /\ age <= 57
         /\ Cardinality(MatchingRows(age)) = 1
    /\ (pc = "test" /\ test_num = 0) =>
         \E i \in MatchingRows(age) : tests_left = AgeRows[i].entry.vigor_tests

\* The one-age last branch: age 57 has been looked up and its nine tests
\* are about to run.
C15_Witness ==
    /\ age = 57 /\ pc = "test" /\ test_num = 0
    /\ tests_left = 9 /\ skill_points = 15

(***************************************************************************)
(* C16 - an out-of-range age mutates nothing                               *)
(***************************************************************************)
\* C16: an apply_age_effects call with an age outside [14,57] leaves
\* skill_points, the three attributes and the four derived stats as they
\* were. Such a call is the step that prints the age warning; the warning
\* is printed for an age outside [14,57] only.
C16_OutOfRangeAgeMutatesNothing ==
    [][ (pc = "idle" /\ age_warning') =>
          /\ ~ (14 <= age /\ age <= 57)
          /\ UNCHANGED << age, skill_points, vigor, finesse, smarts, hit_points,
                          max_hit_points, movement, base_inventory_slots >> ]_vars

\* A character aged once at 40 was then given age 58 and apply_age_effects
\* was called: the warning was printed and the call returned.
C16_Witness ==
    /\ age = 58 /\ pc = "idle" /\ age_warning
    /\ skill_points = 9

(***************************************************************************)
(* C17 - the age-40 scenario on 10/10/10                                   *)
(***************************************************************************)
\* C17: apply_age_effects at age 40 on vigor = finesse = smarts = 10 adds 9
\* skill points and starts three vigor tests with no boost; each test of an
\* age-40 ageing raises no attribute and takes at most one point in all,
\* the tests run one after another, and the call ends after the third with
\* max_hit_points = floor((vigor + finesse + smarts) / 3) on the attributes
\* as the tests left them.
C17_Age40Scenario ==
    [][ /\ (pc = "idle" /\ pc' # "idle" /\ age = 40
                /\ vigor = 10 /\ finesse = 10 /\ smarts = 10) =>
             /\ skill_points' = skill_points + 9
             /\ boosts_left' = 0 /\ tests_left' = 3 /\ test_num' = 0
             /\ pc' = "test"
             /\ UNCHANGED << vigor, finesse, smarts >>
        /\ (pc = "test" /\ age = 40) =>
             /\ test_num' = test_num + 1
             /\ skill_points' = skill_points
             /\ vigor' <= vigor /\ finesse' <= finesse /\ smarts' <= smarts
             /\ vigor' + finesse' + smarts' >= vigor + finesse + smarts - 1
             /\ pc' = IF test_num' = 3 THEN "idle" ELSE "test"
             /\ pc' = "idle" =>
                  max_hit_points' = (vigor' + finesse' + smarts') \div 3 ]_vars

\* The scenario has run to its end with all three tests failed: three
\* points lost from 10/10/10 and max_hit_points recomputed as floor(27/3).
C17_Witness ==
    /\ age = 40 /\ pc = "idle" /\ start_vigor = 10
    /\ test_num = 3 /\ skill_points = 9
    /\ vigor + finesse + smarts = 27
    /\ max_hit_points = 9

(***************************************************************************)
(* C18 - derived stats after a recomputation                               *)
(***************************************************************************)
\* C18: whenever calculate_derived_stats has just run (after
\* roll_attributes, after set_manual_attributes, at the end of an in-range
\* apply_age_effects), hit_points = max_hit_points =
\* floor((vigor + finesse + smarts) / 3), movement =
\* floor((vigor + finesse) / 2) and base_inventory_slots = vigor, on the
\* attributes as every boost and test has left them.
C18_DerivedStatsAfterRecomputation ==
    pc = "idle" =>
      /\ hit_points = max_hit_points
      /\ max_hit_points = (vigor + finesse + smarts) \div 3
      /\ movement = (vigor + finesse) \div 2
      /\ base_inventory_slots = vigor

\* An ageing has ended on a failed test that took a point of vigor, and the
\* stats were recomputed on the lowered vigor.
C18_Witness ==
    /\ pc = "idle" /\ test_num >= 1
    /\ successes = 0 /\ chosen_attr = "vigor"
    /\ vigor < start_vigor
    /\ (vigor + finesse) % 2 = 1

(***************************************************************************)
(* C19 - a selection at the cap is rejected                                *)
(***************************************************************************)
\* C19: when the answer read at the allocation prompt selects a skill whose
\* level is already 3, the method reports the skill at its maximum and
\* waits at its pause prompt with every skill level and skill_points
\* unchanged; leaving the pause changes none of them either.
C19_AtCapSelectionRejected ==
    [][ /\ ( /\ alloc = "prompt"
              /\ alloc_event' # "cancelled"
              /\ LET c == ParsedInput[typed'] IN
                   /\ c.ok
                   /\ 1 <= c.value /\ c.value <= Len(catalog)
                   /\ SkillLevel(skills, catalog[c.value]) >= 3 )
            => /\ alloc_event' = "at_max"
               /\ alloc' = "pause"
               /\ UNCHANGED << skills, skill_points >>
        /\ (alloc = "pause" /\ alloc_event = "at_max")
            => UNCHANGED << skills, skill_points >> ]_vars

\* A skill stands at level 3, points are left, and the last answer selected
\* it: the method said "already at maximum" and waits at the pause prompt.
C19_Witness ==
    /\ alloc = "pause" /\ alloc_event = "at_max"
    /\ skill_points > 0
    /\ ParsedInput[typed].ok
    /\ ParsedInput[typed].value \in 1..Len(catalog)
    /\ SkillLevel(skills, catalog[ParsedInput[typed].value]) = 3

(***************************************************************************)
(* C20 - an accepted level-up                                              *)
(***************************************************************************)
\* C20: a pass of the allocation loop that changes a skill level or
\* skill_points raises the level of the selected skill by exactly 1, lowers
\* skill_points by exactly 1, leaves every other skill as it was, and
\* happens only while skill_points is above 0.
C20_LevelUpSpendsOnePoint ==
    [][ (skills' # skills \/ skill_points' # skill_points) =>
          LET c == ParsedInput[typed'] IN
            /\ c.ok
            /\ 1 <= c.value /\ c.value <= Len(catalog)
            /\ SkillLevel(skills', catalog[c.value])
                 = SkillLevel(skills, catalog[c.value]) + 1
            /\ \A k \in (DOMAIN skills \cup DOMAIN skills') \ { catalog[c.value] } :
                 SkillLevel(skills', k) = SkillLevel(skills, k)
            /\ skill_points' = skill_points - 1
            /\ skill_points > 0 ]_vars

\* The last point has just been spent on a level-up: the ledger holds a
\* skill at 3 and another at 2, no point is left and the method returned.
C20_Witness ==
    /\ alloc = "returned" /\ alloc_event = "improved"
    /\ skill_points = 0
    /\ \E k, j \in DOMAIN skills : k # j /\ skills[k] = 3 /\ skills[j] = 2

(***************************************************************************)
(* C21 - ledger levels within [1,3], budget never negative                 *)
(***************************************************************************)
\* C21: through allocation from an empty ledger, every level the ledger
\* stores is between 1 and 3 (no explicit 0, nothing above the cap) and
\* skill_points never goes below 0.
C21_LedgerLevelsInRange ==
    /\ \A k \in DOMAIN skills : 1 <= skills[k] /\ skills[k] <= 3
    /\ skill_points >= 0

\* Allocation ended with the budget spent, one skill at the cap and a skill
\* of the catalog never selected, hence not in the ledger.
C21_Witness ==
    /\ alloc = "returned" /\ skill_points = 0
    /\ \E k \in DOMAIN skills : skills[k] = 3
    /\ \E i \in 1..Len(catalog) : catalog[i] \notin DOMAIN skills

(***************************************************************************)
(* C22 - 4d6 drop lowest is within [3,18]                                  *)
(***************************************************************************)
\* C22: whatever the four dice show, the attribute roll (four six-sided
\* dice, the lowest dropped), by roll_4d6_drop_lowest of dice.py as by
\* AttributeRoller.roll_4d6_drop_lowest, returns a value from 3 to 18.
C22_AttributeRollInRange ==
    ( /\ caller.fn \in { "roll_4d6_drop_lowest", "AttributeRoller.roll_4d6_drop_lowest" }
      /\ caller.returned )
    => 3 <= caller.value /\ caller.value <= 18

\* Four sixes were rolled through roll_dice: one dropped, 18 returned.
C22_Witness ==
    /\ caller.fn = "roll_4d6_drop_lowest" /\ caller.returned
    /\ dice.all_rolls = << 6, 6, 6, 6 >>
    /\ dice.dropped_rolls = << 6 >>
    /\ caller.value = 18

(***************************************************************************)
(* C23 - starting money                                                    *)
(***************************************************************************)
\* C23: whatever the three dice show, roll_starting_money returns a
\* multiple of 10 from 30 to 180.
C23_StartingMoney ==
    (caller.fn = "roll_starting_money" /\ caller.returned)
    => /\ caller.value % 10 = 0
       /\ 30 <= caller.value /\ caller.value <= 180

\* Three sixes: 180 dollars.
C23_Witness ==
    /\ caller.fn = "roll_starting_money" /\ caller.returned
    /\ dice.all_rolls = << 6, 6, 6 >>
    /\ caller.value = 180

(***************************************************************************)
(* C24 - a vigor test and its loss                                         *)
(***************************************************************************)
\* C24: a vigor test counts a success iff a die shows 5 or 6; a passed test
\* leaves vigor, finesse and smarts as they were; a failed test takes
\* exactly 1 from exactly one attribute that was above 3 and leaves the
\* other two, or changes nothing when all three are 3.
C24_VigorTestOutcome ==
    [][ pc = "test" =>
          /\ (successes' > 0) <=> five_or_six'
          /\ five_or_six' => UNCHANGED << vigor, finesse, smarts >>
          /\ (~ five_or_six') =>
               IF vigor = 3 /\ finesse = 3 /\ smarts = 3
                 THEN UNCHANGED << vigor, finesse, smarts >>
                 ELSE \/ /\ vigor > 3 /\ vigor' = vigor - 1
                         /\ UNCHANGED << finesse, smarts >>
                      \/ /\ finesse > 3 /\ finesse' = finesse - 1
                         /\ UNCHANGED << vigor, smarts >>
                      \/ /\ smarts > 3 /\ smarts' = smarts - 1
                         /\ UNCHANGED << vigor, finesse >> ]_vars

\* A test of two dice showed no 5 or 6 and took a point of smarts while
\* finesse stood at 3.
C24_Witness ==
    /\ test_num >= 1 /\ dice_to_roll = 2
    /\ ~ five_or_six /\ successes = 0
    /\ chosen_attr = "smarts" /\ finesse = 3

(***************************************************************************)
(* C25 - an attribute boost                                                *)
(***************************************************************************)
\* C25: a boost step adds exactly 1 to exactly one attribute that was below
\* 18 and leaves the other two, or changes nothing when all three are 18;
\* it leaves skill_points alone, and the derived stats as well (they change
\* only when the step is the last of apply_age_effects, whose end
\* recomputes them).
C25_BoostStep ==
    [][ pc = "boost" =>
          /\ IF vigor = 18 /\ finesse = 18 /\ smarts = 18
               THEN UNCHANGED << vigor, finesse, smarts >>
               ELSE \/ /\ vigor < 18 /\ vigor' = vigor + 1
                       /\ UNCHANGED << finesse, smarts >>
                    \/ /\ finesse < 18 /\ finesse' = finesse + 1
                       /\ UNCHANGED << vigor, smarts >>
                    \/ /\ smarts < 18 /\ smarts' = smarts + 1
                       /\ UNCHANGED << vigor, finesse >>
          /\ skill_points' = skill_points
          /\ pc' # "idle" =>
               UNCHANGED << hit_points, max_hit_points, movement,
                            base_inventory_slots >> ]_vars

\* A boost raised vigor to 18 with another boost still to come: the derived
\* stats still show the vigor before it.
C25_Witness ==
    /\ pc = "boost" /\ chosen_attr = "vigor"
    /\ vigor = 18 /\ base_inventory_slots = 17

(***************************************************************************)
(* C26 - containers cost no slot                                           *)
(***************************************************************************)
\* C26: every item name has one slot cost, among 0, 1, 2 and 3, and an item
\* whose insertion or removal changed bonus_inventory_slots (a
\* capacity-expanding container) has slot cost 0. Stated for calls with a
\* quantity >= 1, where it already fails.
C26_ContainersCostNoSlot ==
    /\ \A n \in ItemNames : SlotUsage[n] \in { 0, 1, 2, 3 }
    /\ ( /\ call.op # "none" /\ call.quantity >= 1
         /\ bonus_inventory_slots # call.before.bonus )
         => SlotUsage[call.item_name] = 0

(***************************************************************************)
(* C27 - allocation can always be completed                                *)
(***************************************************************************)
\* C27: whenever the allocation loop waits at its prompt with skill_points
\* above 0, some sequence of selections spends every point and ends the
\* workflow. The loop ends (other than by an interrupt) only when
\* skill_points has reached 0, and only an accepted level-up lowers it, so
\* such a sequence exists exactly when the level-ups the catalog still
\* accepts are at least as many as the points left.
C27_PointsCanAlwaysBeSpent ==
    (alloc = "prompt" /\ skill_points > 0)
      => LevelUpsLeft(skills, catalog) >= skill_points

(***************************************************************************)
(* C28 - points are neither created nor lost                               *)
(***************************************************************************)
\* C28: every step of skill allocation (the call, an accepted level-up, a
\* refused selection, help, invalid input, a finish attempt, an interrupt)
\* leaves the sum of all ledger levels plus skill_points as it was.
C28_PointsConserved ==
    [][ LedgerTotal(skills') + skill_points'
          = LedgerTotal(skills) + skill_points ]_vars

\* After four accepted level-ups on two skills, option 0 was typed with a
\* point still to spend and was refused.
C28_Witness ==
    /\ alloc = "prompt" /\ alloc_event = "must_spend"
    /\ skill_points = 1
    /\ LedgerTotal(skills) = 4
    /\ \E k, j \in DOMAIN skills : k # j /\ skills[k] = 3 /\ skills[j] = 1

(***************************************************************************)
(* C29 - every generated attribute set is within [3,18]                    *)
(***************************************************************************)
\* C29: the set an attribute-set generator returned has vigor, finesse and
\* smarts within [3,18], and validate_attribute_value accepts each of them;
\* in particular for create_point_buy_attributes.
C29_GeneratedSetsInRange ==
    generated.generator # "none" =>
      \A value \in { generated.vigor, generated.finesse, generated.smarts } :
        /\ 3 <= value /\ value <= 18
        /\ validate_attribute_value(value)

(***************************************************************************)
(* C30 - a quest is in one list at most, once                              *)
(***************************************************************************)
\* C30: through add_quest, complete_quest and fail_quest no quest id is in
\* active_quests and in completed_quests at once, and no quest id occurs
\* twice in active_quests or twice in completed_quests, so that a quest is
\* completed at most once.
C30_QuestInOneListOnce ==
    /\ \A i \in DOMAIN active_quests : \A j \in DOMAIN completed_quests :
         QuestId[active_quests[i]] # QuestId[completed_quests[j]]
    /\ \A i, j \in DOMAIN active_quests :
         i # j => QuestId[active_quests[i]] # QuestId[active_quests[j]]
    /\ \A i, j \in DOMAIN completed_quests :
         i # j => QuestId[completed_quests[i]] # QuestId[completed_quests[j]]

====
